---- MODULE Spec2Model ----
(***************************************************************************)
(* A model of pyrmapi's native client: the Session Manager                 *)
(* (pyrmapi/native/auth.py, AuthClient) and the Item Repository            *)
(* (pyrmapi/native/cloud.py, CloudClient) talking to the token service,    *)
(* the service directory and the storage backend.                          *)
(*                                                                         *)
(* Strings the code takes apart (paths, display names) are sequences of    *)
(* one-character strings, so strip / split / join are computed as Python   *)
(* computes them.  Identifiers and tokens, which the code only compares    *)
(* and copies, are TLA+ strings.                                           *)
(***************************************************************************)
EXTENDS Integers, Sequences, FiniteSets, TLC

VARIABLES
    docs,          \* storage backend: the items, in the order a listing returns them
    next_id,       \* number of identifiers uuid4 has handed out so far
    items_cache,   \* CloudClient._items_cache
    storage_host,  \* CloudClient._storage_host
    tokens,        \* AuthClient.tokens
    config_file,   \* the credential file at AuthClient.config_path
    last           \* the call that ran last: operation, arguments, requests, outcome

vars == <<docs, next_id, items_cache, storage_host, tokens, config_file, last>>

----------------------------------------------------------------------------
(* Bounds of the model *)

\* identifiers uuid4 may hand out in one behaviour
MaxIds == 2
\* highest item version the backend reaches
MaxVersion == 2
\* items of a backend tree the path functions are applied to
MaxTree == 3

----------------------------------------------------------------------------
(* Program constants *)

ROOT_FOLDER == ""
DEFAULT_STORAGE_HOST == "document-storage-production"
COLLECTION == "CollectionType"
DOCUMENT == "DocumentType"

\* Python's None, for the optional string and object fields
None == "None"

----------------------------------------------------------------------------
(* Python string operations, on sequences of characters *)

SLASH == "/"

RECURSIVE LStrip(_)
LStrip(s) ==
    IF s # <<>> /\ Head(s) = SLASH THEN LStrip(Tail(s)) ELSE s

RECURSIVE RStrip(_)
RStrip(s) ==
    IF s # <<>> /\ s[Len(s)] = SLASH THEN RStrip(SubSeq(s, 1, Len(s) - 1)) ELSE s

\* str.strip("/")
Strip(s) == RStrip(LStrip(s))

\* str.split("/"): one part per separator, plus one; empty parts are kept
RECURSIVE SplitFrom(_, _, _)
SplitFrom(s, parts, cur) ==
    IF s = <<>> THEN Append(parts, cur)
    ELSE IF Head(s) = SLASH THEN SplitFrom(Tail(s), Append(parts, cur), <<>>)
    ELSE SplitFrom(Tail(s), parts, Append(cur, Head(s)))

Split(s) == SplitFrom(s, <<>>, <<>>)

\* "/".join(parts)
RECURSIVE Join(_)
Join(parts) ==
    IF parts = <<>> THEN <<>>
    ELSE IF Len(parts) = 1 THEN parts[1]
    ELSE parts[1] \o <<SLASH>> \o Join(Tail(parts))

----------------------------------------------------------------------------
(* Items *)

\* models.CloudItem, the fields the repository reads
CloudItem(id, version, item_type, visible_name, parent, bookmarked) ==
    [id |-> id, version |-> version, message |-> "", success |-> TRUE,
     item_type |-> item_type, visible_name |-> visible_name,
     bookmarked |-> bookmarked, parent |-> parent]

\* the identifier the n-th uuid4() call returns
Uuid(n) == "id" \o ToString(n)

Range(s) == {s[i] : i \in 1..Len(s)}

\* {item.id: item for item in items}: the last item of an id wins
DictOf(items) ==
    [i \in {items[k].id : k \in 1..Len(items)} |->
        items[CHOOSE k \in 1..Len(items) :
                 /\ items[k].id = i
                 /\ \A j \in (k + 1)..Len(items) : items[j].id # i]]

\* CloudClient._items_cache: None, or a dict from id to item
NoCache == [is_none |-> TRUE, dict |-> <<>>]
CacheOf(d) == [is_none |-> FALSE, dict |-> d]

----------------------------------------------------------------------------
(* Path resolution: CloudClient.find_item_by_path and get_item_path *)

\* an optional item: <<>> is Python's None, <<it>> is the item
Absent == <<>>
Present(it) == <<it>>

\* items_by_parent.get(parent, []): the items below parent, in listing order
ChildrenOf(items, parent) ==
    SelectSeq(items, LAMBDA it : it.parent = parent)

\* str.lower(), for the characters display names are made of
Lower(s) == [i \in 1..Len(s) |-> IF s[i] = "A" THEN "a" ELSE s[i]]

\* a comparison that ignores case
NameMatchesAnyCase(child, part) == Lower(child.visible_name) = Lower(part)

\* the inner for-loop of the traversal: first child whose name equals part
NameMatches(child, part) == child.visible_name = part

\* the inner for-loop without its break: the last child of that name is kept
RECURSIVE LastMatch(_, _)
LastMatch(children, part) ==
    IF children = <<>> THEN <<>>
    ELSE LET later == LastMatch(Tail(children), part)
         IN  IF later # <<>> THEN later
             ELSE IF NameMatches(Head(children), part) THEN <<Head(children)>>
             ELSE <<>>

RECURSIVE FirstMatch(_, _)
FirstMatch(children, part) ==
    IF children = <<>> THEN Absent
    ELSE IF NameMatches(Head(children), part) THEN Present(Head(children))
    ELSE FirstMatch(Tail(children), part)

\* the outer for-loop: one path segment per turn
RECURSIVE Traverse(_, _, _, _)
Traverse(items, parts, current_parent, current_item) ==
    IF parts = <<>> THEN current_item
    ELSE LET found == FirstMatch(ChildrenOf(items, current_parent), Head(parts))
         IN  IF found = Absent THEN Absent
             ELSE Traverse(items, Tail(parts), found[1].id, found)

\* find_item_by_path after its list_items call returned items
ResolvePath(items, path) ==
    LET stripped == Strip(path)
    IN  IF stripped = <<>> THEN Absent
        ELSE Traverse(items, Split(stripped), ROOT_FOLDER, Absent)

\* the while-loop of get_item_path; parts is the list built so far.  The loop
\* has no other exit than an empty parent or a cache miss: when it has run
\* more turns than the cache has items it is revisiting an item and never
\* ends, which is reported as diverged.
RECURSIVE WalkUp(_, _, _, _)
WalkUp(cache, current, parts, turns) ==
    IF current.parent = ROOT_FOLDER \/ cache.is_none \/ DOMAIN cache.dict = {}
    THEN [diverged |-> FALSE, parts |-> parts]
    ELSE IF current.parent \notin DOMAIN cache.dict
    THEN [diverged |-> FALSE, parts |-> parts]
    ELSE IF turns > Cardinality(DOMAIN cache.dict)
    THEN [diverged |-> TRUE, parts |-> parts]
    ELSE LET parent == cache.dict[current.parent]
         IN  WalkUp(cache, parent, <<parent.visible_name>> \o parts, turns + 1)

\* get_item_path once the cache is in place: "/" + "/".join(parts)
PathOf(cache, item) ==
    LET w == WalkUp(cache, item, <<item.visible_name>>, 1)
    IN  [diverged |-> w.diverged, path |-> <<SLASH>> \o Join(w.parts)]

----------------------------------------------------------------------------
(* A call in progress.                                                     *)
(*                                                                         *)
(* A handler is a function of the client state, the backend state and the  *)
(* script of answers the network gives to the requests of the call, in     *)
(* order.  It runs until it returns, raises (err), or needs an answer the  *)
(* script does not hold yet (pending names the endpoint asked).  A step    *)
(* applied to a call that has raised or is pending changes nothing, which  *)
(* is how an exception leaves the rest of a handler unexecuted.            *)
(***************************************************************************)

Begin(script) ==
    [err |-> "", pending |-> "", script |-> script, used |-> 0,
     host |-> storage_host, tokens |-> tokens, file |-> config_file,
     cache |-> items_cache, docs |-> docs, next_id |-> next_id,
     reqs |-> <<>>, headers |-> "", ret |-> <<>>, path |-> <<>>, done |-> FALSE,
     written |-> <<>>]

Blocked(c) == c.err # "" \/ c.pending # ""
HasAnswer(c) == c.used < Len(c.script)
Ask(c, endpoint) == [c EXCEPT !.pending = endpoint]
Answer(c) == c.script[c.used + 1]
Raise(c, error) == [c EXCEPT !.err = error]
\* the request is on the wire: it is logged and its answer is consumed
Sent(c, request) ==
    [c EXCEPT !.used = c.used + 1, !.reqs = Append(c.reqs, request)]

----------------------------------------------------------------------------
(* The network: what each endpoint can answer *)

HttpResponse(status_code, text, json) ==
    [net_error |-> FALSE, malformed |-> FALSE, status_code |-> status_code,
     text |-> text, json |-> json]
NetworkError ==
    [net_error |-> TRUE, malformed |-> FALSE, status_code |-> 0,
     text |-> "", json |-> <<>>]

\* user/new of the authentication host: every exchange issues a session
\* credential of its own, of which the model tells two apart
TokenAnswers == {"ok", "renewed", "http", "empty", "net"}
TokenService(answer) ==
    CASE answer = "ok" -> HttpResponse(200, "user-token", <<>>)
      [] answer = "renewed" -> HttpResponse(200, "user-token-2", <<>>)
      [] answer = "empty" -> HttpResponse(200, "", <<>>)
      [] answer = "http" -> HttpResponse(401, "denied", <<>>)
      [] OTHER -> NetworkError

\* device/new of the authentication host
DeviceAnswers == {"ok", "http", "empty", "net"}
DeviceService(answer) ==
    CASE answer = "ok" -> HttpResponse(200, "device-token", <<>>)
      [] answer = "empty" -> HttpResponse(200, "", <<>>)
      [] answer = "http" -> HttpResponse(400, "bad code", <<>>)
      [] OTHER -> NetworkError

\* the service directory
DiscoveryAnswers == {"ok", "http", "notok", "malformed", "net"}
DISCOVERED_HOST == "discovered-host"
DirectoryService(answer) ==
    CASE answer = "ok" ->
            HttpResponse(200, "", <<[Status |-> "OK", Host |-> DISCOVERED_HOST]>>)
      [] answer = "notok" ->
            HttpResponse(200, "", <<[Status |-> "ERROR", Host |-> ""]>>)
      [] answer = "malformed" ->
            [HttpResponse(200, "", <<>>) EXCEPT !.malformed = TRUE]
      [] answer = "http" -> HttpResponse(500, "", <<>>)
      [] OTHER -> NetworkError

\* the storage backend answers from its items; a fault replaces the answer
\* and leaves the items alone
Position(items, id) ==
    IF \E k \in 1..Len(items) : items[k].id = id
    THEN CHOOSE k \in 1..Len(items) : items[k].id = id
    ELSE 0

Fault(answer) ==
    CASE answer = "http" -> HttpResponse(500, "server error", <<>>)
      [] answer = "notfound" -> HttpResponse(404, "not found", <<>>)
      [] answer = "empty" -> HttpResponse(200, "", <<>>)
      [] OTHER -> NetworkError

Refusal(id, version) ==
    [ID |-> id, Version |-> version, Success |-> FALSE, Message |-> "refused"]

\* GET docs
ListAnswers == {"ok", "http", "net"}
BackendList(items, answer) ==
    IF answer = "ok" THEN HttpResponse(200, "", items) ELSE Fault(answer)

\* GET docs?doc=<id>
GetAnswers == {"ok", "notfound", "http", "net"}
BackendGet(items, id, answer) ==
    IF answer = "ok"
    THEN HttpResponse(200, "", SelectSeq(items, LAMBDA it : it.id = id))
    ELSE Fault(answer)

\* PUT upload/request
ReserveAnswers == {"ok", "http", "empty", "refused", "net"}
ReserveDocumentAnswers == ReserveAnswers \cup {"nourl"}
BackendReserve(request, answer) ==
    CASE answer = "ok" ->
            HttpResponse(200, "",
                <<[ID |-> request.ID, Version |-> request.Version,
                   Success |-> TRUE, Message |-> "",
                   BlobURLPut |-> "blob-url"]>>)
      [] answer = "nourl" ->
            HttpResponse(200, "",
                <<[ID |-> request.ID, Version |-> request.Version,
                   Success |-> TRUE, Message |-> "", BlobURLPut |-> ""]>>)
      [] answer = "refused" ->
            HttpResponse(200, "",
                <<Refusal(request.ID, request.Version) @@ [BlobURLPut |-> ""]>>)
      [] OTHER -> Fault(answer)

\* PUT to the signed URL of a reservation
BlobPutAnswers == {"ok", "created", "nocontent", "http", "net"}
BlobStore(answer) ==
    CASE answer = "ok" -> HttpResponse(200, "", <<>>)
      [] answer = "created" -> HttpResponse(201, "", <<>>)
      [] answer = "nocontent" -> HttpResponse(204, "", <<>>)
      [] OTHER -> Fault(answer)

\* PUT delete: the item goes when the request carries its current version;
\* "raced" is the request arriving after another client has updated the item
DeleteAnswers == {"ok", "http", "empty", "refused", "raced", "net"}
DeleteAccepted(items, request) ==
    LET k == Position(items, request.ID)
    IN  k # 0 /\ items[k].version = request.Version
Raced(items, id) ==
    [k \in 1..Len(items) |->
        IF items[k].id = id THEN [items[k] EXCEPT !.version = @ + 1] ELSE items[k]]
BackendDeleteItems(items, request, answer) ==
    IF answer = "raced" THEN Raced(items, request.ID)
    ELSE IF answer = "ok" /\ DeleteAccepted(items, request)
    THEN SelectSeq(items, LAMBDA it : it.id # request.ID)
    ELSE items
DeleteReply(items, request, answer) ==
    CASE answer = "ok" /\ DeleteAccepted(items, request) ->
            HttpResponse(200, "",
                <<[ID |-> request.ID, Version |-> request.Version,
                   Success |-> TRUE, Message |-> ""]>>)
      [] answer = "refused" \/ answer = "ok" ->
            HttpResponse(200, "", <<Refusal(request.ID, request.Version)>>)
      [] OTHER -> Fault(answer)
BackendDelete(items, request, answer) ==
    IF answer = "raced"
    THEN DeleteReply(Raced(items, request.ID), request, "ok")
    ELSE DeleteReply(items, request, answer)

\* PUT upload/update-status: a new identifier is stored; a known one is
\* replaced when the request carries the successor of its version
UpdateAnswers == {"ok", "http", "empty", "refused", "net"}
Stored(request) ==
    [CloudItem(request.ID, request.Version, request.Type, request.VissibleName,
               request.Parent, request.Bookmarked) EXCEPT !.success = TRUE]
UpdateAccepted(items, request) ==
    LET k == Position(items, request.ID)
    IN  IF k = 0 THEN TRUE ELSE request.Version = items[k].version + 1
BackendUpdateItems(items, request, answer) ==
    LET k == Position(items, request.ID)
    IN  IF answer # "ok" \/ ~UpdateAccepted(items, request) THEN items
        ELSE IF k = 0 THEN Append(items, Stored(request))
        ELSE [items EXCEPT ![k] = Stored(request)]
BackendUpdate(items, request, answer) ==
    CASE answer = "ok" /\ UpdateAccepted(items, request) ->
            HttpResponse(200, "", <<Stored(request)>>)
      [] answer = "refused" \/ answer = "ok" ->
            HttpResponse(200, "",
                <<[Stored(request) EXCEPT !.success = FALSE, !.message = "refused"]>>)
      [] OTHER -> Fault(answer)

----------------------------------------------------------------------------
(* Session Manager: pyrmapi/native/auth.py *)

\* AuthClient.tokens: None, or models.AuthTokens
NoTokens == [is_none |-> TRUE, device_token |-> "", user_token |-> ""]
AuthTokens(device_token, user_token) ==
    [is_none |-> FALSE, device_token |-> device_token, user_token |-> user_token]

\* stat.S_IRUSR | stat.S_IWUSR, 0o600
CONFIG_FILE_MODE == 384
\* the mode of a file made without a chmod, 0o644
CREATED_FILE_MODE == 420

\* the credential file: absent, or its permission bits and the two fields of
\* its document
NoFile == [exists |-> FALSE, mode |-> 0, devicetoken |-> "", usertoken |-> ""]
\* the file as save_tokens leaves it
FileOf(t) ==
    [exists |-> TRUE, mode |-> CONFIG_FILE_MODE,
     devicetoken |-> t.device_token, usertoken |-> t.user_token]

\* Path.write_text of the dumped document: a new file gets the default mode
write_text(file, data) ==
    [exists |-> TRUE,
     mode |-> IF file.exists THEN file.mode ELSE CREATED_FILE_MODE,
     devicetoken |-> data.devicetoken, usertoken |-> data.usertoken]

chmod(file, mode) == [file EXCEPT !.mode = mode]

load_tokens(c) ==
    IF Blocked(c) \/ ~c.file.exists THEN c
    ELSE [c EXCEPT !.tokens = AuthTokens(c.file.devicetoken, c.file.usertoken)]

\* a save that persists the device credential only
save_tokens_device_only(c, pair) ==
    LET given == IF pair.is_none THEN c.tokens ELSE pair
        data == [devicetoken |-> given.device_token, usertoken |-> ""]
    IN  IF Blocked(c) THEN c
        ELSE IF given.is_none THEN Raise(c, "ConfigError")
        ELSE [c EXCEPT !.file = chmod(write_text(c.file, data), CONFIG_FILE_MODE),
                       !.tokens = given]

\* save_tokens(tokens): NoTokens for the argument left out
save_tokens(c, pair) ==
    LET given == IF pair.is_none THEN c.tokens ELSE pair
        data == [devicetoken |-> given.device_token,
                 usertoken |-> given.user_token]
    IN  IF Blocked(c) THEN c
        ELSE IF given.is_none THEN Raise(c, "ConfigError")
        ELSE [c EXCEPT !.file = chmod(write_text(c.file, data), CONFIG_FILE_MODE),
                       !.tokens = given]

\* a refresh that only tests whether a pair is held
refresh_user_token_any_device(c) ==
    IF Blocked(c) THEN c
    ELSE IF c.tokens.is_none THEN Raise(c, "AuthError")
    ELSE IF ~HasAnswer(c) THEN Ask(c, "token")
    ELSE LET response == TokenService(Answer(c))
             c1 == Sent(c, [url |-> "user/new", bearer |-> c.tokens.device_token])
         IN  IF response.net_error THEN Raise(c1, "TokenRefreshError")
             ELSE IF response.status_code # 200 THEN Raise(c1, "TokenRefreshError")
             ELSE IF response.text = "" THEN Raise(c1, "TokenRefreshError")
             ELSE [c1 EXCEPT !.tokens =
                       AuthTokens(c.tokens.device_token, response.text)]

\* a refresh that stores the answer as the device credential too
refresh_user_token_rotates_device(c) ==
    IF Blocked(c) THEN c
    ELSE IF c.tokens.is_none \/ c.tokens.device_token = "" THEN Raise(c, "AuthError")
    ELSE IF ~HasAnswer(c) THEN Ask(c, "token")
    ELSE LET response == TokenService(Answer(c))
             c1 == Sent(c, [url |-> "user/new", bearer |-> c.tokens.device_token])
         IN  IF response.net_error THEN Raise(c1, "TokenRefreshError")
             ELSE IF response.status_code # 200 THEN Raise(c1, "TokenRefreshError")
             ELSE IF response.text = "" THEN Raise(c1, "TokenRefreshError")
             ELSE [c1 EXCEPT !.tokens = AuthTokens(response.text, response.text)]

\* a refresh that drops the session credential it holds when the exchange fails
refresh_user_token_forgets(c) ==
    IF Blocked(c) THEN c
    ELSE IF c.tokens.is_none \/ c.tokens.device_token = "" THEN Raise(c, "AuthError")
    ELSE IF ~HasAnswer(c) THEN Ask(c, "token")
    ELSE LET response == TokenService(Answer(c))
             c1 == Sent(c, [url |-> "user/new", bearer |-> c.tokens.device_token])
             c2 == [c1 EXCEPT !.tokens = AuthTokens(c.tokens.device_token, "")]
         IN  IF response.net_error THEN Raise(c2, "TokenRefreshError")
             ELSE IF response.status_code # 200 THEN Raise(c2, "TokenRefreshError")
             ELSE IF response.text = "" THEN Raise(c2, "TokenRefreshError")
             ELSE [c1 EXCEPT !.tokens =
                       AuthTokens(c.tokens.device_token, response.text)]

refresh_user_token(c) ==
    IF Blocked(c) THEN c
    ELSE IF c.tokens.is_none \/ c.tokens.device_token = "" THEN Raise(c, "AuthError")
    ELSE IF ~HasAnswer(c) THEN Ask(c, "token")
    ELSE LET response == TokenService(Answer(c))
             c1 == Sent(c, [url |-> "user/new", bearer |-> c.tokens.device_token])
         IN  IF response.net_error THEN Raise(c1, "TokenRefreshError")
             ELSE IF response.status_code # 200 THEN Raise(c1, "TokenRefreshError")
             ELSE IF response.text = "" THEN Raise(c1, "TokenRefreshError")
             ELSE [c1 EXCEPT !.tokens =
                       AuthTokens(c.tokens.device_token, response.text)]

\* a registration that keeps the session credential in hand
register_device_keeps_session(c, code) ==
    IF Blocked(c) THEN c
    ELSE IF ~HasAnswer(c) THEN Ask(c, "device")
    ELSE LET response == DeviceService(Answer(c))
             c1 == Sent(c, [url |-> "device/new", bearer |-> "", code |-> code])
         IN  IF response.net_error THEN Raise(c1, "DeviceRegistrationError")
             ELSE IF response.status_code # 200
             THEN Raise(c1, "DeviceRegistrationError")
             ELSE IF response.text = "" THEN Raise(c1, "DeviceRegistrationError")
             ELSE [c1 EXCEPT !.tokens =
                       AuthTokens(response.text, c.tokens.user_token)]

\* register_device and register_device_async
register_device(c, code) ==
    IF Blocked(c) THEN c
    ELSE IF ~HasAnswer(c) THEN Ask(c, "device")
    ELSE LET response == DeviceService(Answer(c))
             c1 == Sent(c, [url |-> "device/new", bearer |-> "", code |-> code])
         IN  IF response.net_error THEN Raise(c1, "DeviceRegistrationError")
             ELSE IF response.status_code # 200
             THEN Raise(c1, "DeviceRegistrationError")
             ELSE IF response.text = "" THEN Raise(c1, "DeviceRegistrationError")
             ELSE [c1 EXCEPT !.tokens = AuthTokens(response.text, "")]

\* an ensure_authenticated that keeps a session credential it already holds
ensure_authenticated_lazy(c) ==
    LET c1 == IF c.tokens.is_none THEN load_tokens(c) ELSE c
    IN  IF Blocked(c) THEN c
        ELSE IF c1.tokens.is_none THEN Raise(c1, "AuthError")
        ELSE IF c1.tokens.user_token # "" THEN c1
        ELSE save_tokens(refresh_user_token(c1), NoTokens)

\* ensure_authenticated and ensure_authenticated_async
ensure_authenticated(c) ==
    LET c1 == IF c.tokens.is_none THEN load_tokens(c) ELSE c
    IN  IF Blocked(c) THEN c
        ELSE IF c1.tokens.is_none THEN Raise(c1, "AuthError")
        ELSE save_tokens(refresh_user_token(c1), NoTokens)

----------------------------------------------------------------------------
(* Service Locator: CloudClient.discover_storage_host, storage_host *)

\* a discovery that raises on every answer but the host
discover_storage_host_strict(c) ==
    IF Blocked(c) THEN c
    ELSE IF ~HasAnswer(c) THEN Ask(c, "discovery")
    ELSE LET response == DirectoryService(Answer(c))
             c1 == Sent(c, [url |-> "service-discovery", bearer |-> ""])
         IN  IF response.net_error THEN [c1 EXCEPT !.ret = DEFAULT_STORAGE_HOST]
             ELSE IF response.status_code # 200
             THEN Raise(c1, "ServiceDiscoveryError")
             ELSE IF response.malformed THEN Raise(c1, "ServiceDiscoveryError")
             ELSE IF response.json[1].Status # "OK"
             THEN Raise(c1, "ServiceDiscoveryError")
             ELSE [c1 EXCEPT !.ret = response.json[1].Host]

\* discover_storage_host and discover_storage_host_async: the host is left
\* in ret
discover_storage_host(c) ==
    IF Blocked(c) THEN c
    ELSE IF ~HasAnswer(c) THEN Ask(c, "discovery")
    ELSE LET response == DirectoryService(Answer(c))
             c1 == Sent(c, [url |-> "service-discovery", bearer |-> ""])
         IN  IF response.net_error THEN [c1 EXCEPT !.ret = DEFAULT_STORAGE_HOST]
             ELSE IF response.status_code # 200
             THEN [c1 EXCEPT !.ret = DEFAULT_STORAGE_HOST]
             ELSE IF response.malformed THEN Raise(c1, "ServiceDiscoveryError")
             ELSE IF response.json[1].Status # "OK"
             THEN [c1 EXCEPT !.ret = DEFAULT_STORAGE_HOST]
             ELSE [c1 EXCEPT !.ret = response.json[1].Host]

\* a host looked up again by every use
storage_host_property_uncached(c) ==
    IF Blocked(c) THEN c
    ELSE LET c1 == discover_storage_host(c)
         IN  IF Blocked(c1) THEN c1 ELSE [c1 EXCEPT !.host = c1.ret, !.ret = <<>>]

\* the storage_host property, and the same test the async variants make
storage_host_property(c) ==
    IF Blocked(c) \/ c.host # None THEN c
    ELSE LET c1 == discover_storage_host(c)
         IN  IF Blocked(c1) THEN c1 ELSE [c1 EXCEPT !.host = c1.ret, !.ret = <<>>]

\* get_http_client: the bearer token of the client it builds is left in ret
get_http_client(c) ==
    LET c1 == ensure_authenticated(c)
    IN  IF Blocked(c1) THEN c1
        ELSE [c1 EXCEPT !.ret = <<c1.tokens.user_token>>]

\* headers made of the session credential held before the refresh
get_auth_headers_before_refresh(c) ==
    LET c1 == ensure_authenticated(c)
    IN  IF Blocked(c1) THEN c1
        ELSE [c1 EXCEPT !.headers = c.tokens.user_token]

\* _get_auth_headers: the bearer token of the next request
get_auth_headers(c) ==
    LET c1 == ensure_authenticated(c)
    IN  IF Blocked(c1) THEN c1
        ELSE [c1 EXCEPT !.headers = c1.tokens.user_token]

\* a request to the storage host under the headers in hand
StorageRequest(c, method, endpoint, json) ==
    [url |-> endpoint, method |-> method, host |-> c.host,
     bearer |-> c.headers, json |-> json]

----------------------------------------------------------------------------
(* Item Repository: reads *)

\* an empty listing treated as a failure
list_items_request_empty_fails(c) ==
    IF Blocked(c) THEN c
    ELSE IF ~HasAnswer(c) THEN Ask(c, "list")
    ELSE LET response == BackendList(c.docs, Answer(c))
             c1 == Sent(c, StorageRequest(c, "GET", "docs", <<>>))
         IN  IF response.net_error THEN Raise(c1, "ListItemsError")
             ELSE IF response.status_code # 200 THEN Raise(c1, "ListItemsError")
             ELSE IF response.json = <<>> THEN Raise(c1, "ListItemsError")
             ELSE [c1 EXCEPT !.cache = CacheOf(DictOf(response.json)),
                             !.ret = response.json]

\* the try-block of list_items and list_items_async
list_items_request(c) ==
    IF Blocked(c) THEN c
    ELSE IF ~HasAnswer(c) THEN Ask(c, "list")
    ELSE LET response == BackendList(c.docs, Answer(c))
             c1 == Sent(c, StorageRequest(c, "GET", "docs", <<>>))
         IN  IF response.net_error THEN Raise(c1, "ListItemsError")
             ELSE IF response.status_code # 200 THEN Raise(c1, "ListItemsError")
             ELSE IF response.json = <<>> THEN [c1 EXCEPT !.ret = <<>>]
             ELSE [c1 EXCEPT !.cache = CacheOf(DictOf(response.json)),
                             !.ret = response.json]

\* list_items and list_items_async: host, then headers, then the request
list_items(c) ==
    list_items_request(get_auth_headers(storage_host_property(c)))

\* the try-block of get_item
get_item_request(c, item_id) ==
    IF Blocked(c) THEN c
    ELSE IF ~HasAnswer(c) THEN Ask(c, "get")
    ELSE LET response == BackendGet(c.docs, item_id, Answer(c))
             c1 == Sent(c, StorageRequest(c, "GET", "docs?doc", <<item_id>>))
         IN  IF response.net_error THEN Raise(c1, "ListItemsError")
             ELSE IF response.status_code = 404 THEN Raise(c1, "ItemNotFoundError")
             ELSE IF response.status_code # 200 THEN Raise(c1, "ListItemsError")
             ELSE IF response.json = <<>> THEN Raise(c1, "ItemNotFoundError")
             ELSE [c1 EXCEPT !.ret = <<response.json[1]>>]

\* a get_item that answers from the item cache when the item is there
get_item_from_cache(c, item_id) ==
    IF Blocked(c) THEN c
    ELSE IF ~c.cache.is_none /\ item_id \in DOMAIN c.cache.dict
    THEN [c EXCEPT !.ret = <<c.cache.dict[item_id]>>]
    ELSE LET c1 == get_item_request(get_auth_headers(storage_host_property(c)),
                                    item_id)
         IN  [c1 EXCEPT !.headers = c.headers]

\* get_item keeps the headers of an async caller: its own are a local value
get_item(c, item_id) ==
    LET c1 == get_item_request(get_auth_headers(storage_host_property(c)), item_id)
    IN  [c1 EXCEPT !.headers = c.headers]

find_item_by_path(c, path) ==
    LET c1 == list_items(c)
    IN  IF Blocked(c1) THEN c1
        ELSE [c1 EXCEPT !.ret = ResolvePath(c1.ret, path)]

\* a get_item_path that lists whether or not the client holds a cache
get_item_path_always_lists(c, item) ==
    LET c1 == list_items(c)
        p == PathOf(c1.cache, item)
    IN  IF Blocked(c1) THEN c1
        ELSE IF p.diverged THEN Raise(c1, "diverges")
        ELSE [c1 EXCEPT !.ret = <<>>, !.path = p.path]

get_item_path(c, item) ==
    LET c1 == IF c.cache.is_none THEN list_items(c) ELSE c
        p == PathOf(c1.cache, item)
    IN  IF Blocked(c1) THEN c1
        ELSE IF p.diverged THEN Raise(c1, "diverges")
        ELSE [c1 EXCEPT !.ret = <<>>, !.path = p.path]

----------------------------------------------------------------------------
(* Item Repository: create_folder *)

\* str(uuid.uuid4()): the identifier is left in ret
uuid4(c) ==
    IF Blocked(c) THEN c
    ELSE [c EXCEPT !.next_id = c.next_id + 1, !.ret = <<Uuid(c.next_id + 1)>>]

\* the host and the headers of a request: the blocking variants compute both
\* for every request, the non-blocking ones once, at the start of the call
Prepare(c, mode) ==
    IF mode = "async" THEN c ELSE get_auth_headers(storage_host_property(c))
Prologue(c, mode) ==
    IF mode = "async" THEN get_auth_headers(storage_host_property(c)) ELSE c

UploadRequestItem(id, version, item_type) ==
    [ID |-> id, Version |-> version, Type |-> item_type]

\* a metadata record that leaves the parent at its default
UpdateStatusItemNoParent(id, version, parent, visible_name, item_type, bookmarked) ==
    [ID |-> id, Version |-> version, Parent |-> ROOT_FOLDER,
     VissibleName |-> visible_name, Type |-> item_type, Bookmarked |-> bookmarked]

UpdateStatusItem(id, version, parent, visible_name, item_type, bookmarked) ==
    [ID |-> id, Version |-> version, Parent |-> parent,
     VissibleName |-> visible_name, Type |-> item_type, Bookmarked |-> bookmarked]

\* step 1 without the test of the Success flag
create_folder_reserve_unchecked(c, upload_request) ==
    IF Blocked(c) THEN c
    ELSE IF ~HasAnswer(c) THEN Ask(c, "reserve")
    ELSE LET response == BackendReserve(upload_request, Answer(c))
             c1 == Sent(c, StorageRequest(c, "PUT", "upload/request",
                                          <<upload_request>>))
         IN  IF response.net_error THEN Raise(c1, "CreateFolderError")
             ELSE IF response.status_code # 200 THEN Raise(c1, "CreateFolderError")
             ELSE IF response.json = <<>> THEN Raise(c1, "CreateFolderError")
             ELSE c1

\* step 1 of create_folder: PUT upload/request
create_folder_reserve(c, upload_request) ==
    IF Blocked(c) THEN c
    ELSE IF ~HasAnswer(c) THEN Ask(c, "reserve")
    ELSE LET response == BackendReserve(upload_request, Answer(c))
             c1 == Sent(c, StorageRequest(c, "PUT", "upload/request",
                                          <<upload_request>>))
         IN  IF response.net_error THEN Raise(c1, "CreateFolderError")
             ELSE IF response.status_code # 200 THEN Raise(c1, "CreateFolderError")
             ELSE IF response.json = <<>> \/ ~response.json[1].Success
             THEN Raise(c1, "CreateFolderError")
             ELSE c1

\* step 2 of create_folder: PUT upload/update-status
create_folder_update(c, update_item) ==
    IF Blocked(c) THEN c
    ELSE IF ~HasAnswer(c) THEN Ask(c, "update")
    ELSE LET response == BackendUpdate(c.docs, update_item, Answer(c))
             c1 == [Sent(c, StorageRequest(c, "PUT", "upload/update-status",
                                           <<update_item>>))
                      EXCEPT !.docs = BackendUpdateItems(c.docs, update_item,
                                                         Answer(c))]
         IN  IF response.net_error THEN Raise(c1, "CreateFolderError")
             ELSE IF response.status_code # 200 THEN Raise(c1, "CreateFolderError")
             ELSE IF response.json = <<>> THEN Raise(c1, "CreateFolderError")
             ELSE [c1 EXCEPT !.cache = NoCache, !.ret = <<response.json[1]>>]

\* create_folder (mode "sync") and create_folder_async (mode "async")
create_folder(c, mode, name, parent_id) ==
    LET c1 == IF mode = "async" THEN uuid4(Prologue(c, mode)) ELSE uuid4(c)
        folder_id == c1.ret[1]
        upload_request == UploadRequestItem(folder_id, 1, COLLECTION)
        c2 == create_folder_reserve(Prepare(c1, mode), upload_request)
        update_item ==
            UpdateStatusItem(folder_id, 1, parent_id, name, COLLECTION, FALSE)
    IN  IF Blocked(c1) THEN c1
        ELSE create_folder_update(Prepare(c2, mode), update_item)

----------------------------------------------------------------------------
(* Item Repository: upload_document *)

\* an optional name: <<>> is None, <<n>> is the name n
NoName == <<>>

upload_reserve(c, upload_request) ==
    IF Blocked(c) THEN c
    ELSE IF ~HasAnswer(c) THEN Ask(c, "reserve_document")
    ELSE LET response == BackendReserve(upload_request, Answer(c))
             c1 == Sent(c, StorageRequest(c, "PUT", "upload/request",
                                          <<upload_request>>))
         IN  IF response.net_error THEN Raise(c1, "UploadError")
             ELSE IF response.status_code # 200 THEN Raise(c1, "UploadError")
             ELSE IF response.json = <<>> THEN Raise(c1, "UploadError")
             ELSE IF ~response.json[1].Success THEN Raise(c1, "UploadError")
             ELSE IF response.json[1].BlobURLPut = "" THEN Raise(c1, "UploadError")
             ELSE [c1 EXCEPT !.ret = <<response.json[1].BlobURLPut>>]

\* a content PUT whose status is not looked at
upload_blob_unchecked(c, blob_url_put) ==
    IF Blocked(c) THEN c
    ELSE IF ~HasAnswer(c) THEN Ask(c, "blob_put")
    ELSE LET response == BlobStore(Answer(c))
             c1 == Sent(c, [url |-> blob_url_put, method |-> "PUT",
                            host |-> "blob-store", bearer |-> "", json |-> <<>>])
         IN  IF response.net_error THEN Raise(c1, "UploadError") ELSE c1

upload_blob(c, blob_url_put) ==
    IF Blocked(c) THEN c
    ELSE IF ~HasAnswer(c) THEN Ask(c, "blob_put")
    ELSE LET response == BlobStore(Answer(c))
             c1 == Sent(c, [url |-> blob_url_put, method |-> "PUT",
                            host |-> "blob-store", bearer |-> "", json |-> <<>>])
         IN  IF response.net_error THEN Raise(c1, "UploadError")
             ELSE IF response.status_code \notin {200, 201}
             THEN Raise(c1, "UploadError")
             ELSE c1

upload_update(c, update_item) ==
    IF Blocked(c) THEN c
    ELSE IF ~HasAnswer(c) THEN Ask(c, "update")
    ELSE LET response == BackendUpdate(c.docs, update_item, Answer(c))
             c1 == [Sent(c, StorageRequest(c, "PUT", "upload/update-status",
                                           <<update_item>>))
                      EXCEPT !.docs = BackendUpdateItems(c.docs, update_item,
                                                         Answer(c))]
         IN  IF response.net_error THEN Raise(c1, "UploadError")
             ELSE IF response.status_code # 200 THEN Raise(c1, "UploadError")
             ELSE IF response.json = <<>> THEN Raise(c1, "UploadError")
             ELSE [c1 EXCEPT !.cache = NoCache, !.ret = <<response.json[1]>>]

\* the file check, the default name and the identifier
upload_local(c, file) ==
    IF Blocked(c) THEN c
    ELSE IF ~file.exists THEN Raise(c, "FileNotFoundError")
    ELSE uuid4(c)

\* upload_document (mode "sync") and upload_document_async (mode "async")
upload_document(c, mode, file, name, parent_id) ==
    LET c1 == upload_local(Prologue(c, mode), file)
        visible_name == IF name = NoName THEN file.stem ELSE name[1]
        doc_id == c1.ret[1]
        upload_request == UploadRequestItem(doc_id, 1, DOCUMENT)
        c2 == upload_reserve(Prepare(c1, mode), upload_request)
        c3 == upload_blob(c2, c2.ret[1])
        update_item ==
            UpdateStatusItem(doc_id, 1, parent_id, visible_name, DOCUMENT, FALSE)
    IN  IF Blocked(c1) THEN c1
        ELSE IF Blocked(c2) THEN c2
        ELSE upload_update(Prepare(c3, mode), update_item)

----------------------------------------------------------------------------
(* Item Repository: move_item, rename_item, delete_item *)

\* a move that leaves the cache as it is
move_update_keeps_cache(c, update_item) ==
    IF Blocked(c) THEN c
    ELSE IF ~HasAnswer(c) THEN Ask(c, "update")
    ELSE LET response == BackendUpdate(c.docs, update_item, Answer(c))
             c1 == [Sent(c, StorageRequest(c, "PUT", "upload/update-status",
                                           <<update_item>>))
                      EXCEPT !.docs = BackendUpdateItems(c.docs, update_item,
                                                         Answer(c))]
         IN  IF response.net_error THEN Raise(c1, "MoveError")
             ELSE IF response.status_code # 200 THEN Raise(c1, "MoveError")
             ELSE IF response.json = <<>> THEN Raise(c1, "MoveError")
             ELSE IF ~response.json[1].success THEN Raise(c1, "MoveError")
             ELSE [c1 EXCEPT !.ret = <<response.json[1]>>]

move_update(c, update_item) ==
    IF Blocked(c) THEN c
    ELSE IF ~HasAnswer(c) THEN Ask(c, "update")
    ELSE LET response == BackendUpdate(c.docs, update_item, Answer(c))
             c1 == [Sent(c, StorageRequest(c, "PUT", "upload/update-status",
                                           <<update_item>>))
                      EXCEPT !.docs = BackendUpdateItems(c.docs, update_item,
                                                         Answer(c))]
         IN  IF response.net_error THEN Raise(c1, "MoveError")
             ELSE IF response.status_code # 200 THEN Raise(c1, "MoveError")
             ELSE IF response.json = <<>> THEN Raise(c1, "MoveError")
             ELSE IF ~response.json[1].success THEN Raise(c1, "MoveError")
             ELSE [c1 EXCEPT !.cache = NoCache, !.ret = <<response.json[1]>>]

\* a move that resubmits the version it fetched
move_item_same_version(c, mode, item_id, new_parent_id, new_name) ==
    LET c1 == get_item(Prologue(c, mode), item_id)
        item == c1.ret[1]
        name == IF new_name # NoName THEN new_name[1] ELSE item.visible_name
        update_item ==
            UpdateStatusItem(item_id, item.version, new_parent_id, name,
                             item.item_type, item.bookmarked)
    IN  IF Blocked(c1) THEN c1
        ELSE move_update(Prepare(c1, mode), update_item)

\* move_item (mode "sync") and move_item_async (mode "async")
move_item(c, mode, item_id, new_parent_id, new_name) ==
    LET c1 == get_item(Prologue(c, mode), item_id)
        item == c1.ret[1]
        name == IF new_name # NoName THEN new_name[1] ELSE item.visible_name
        update_item ==
            UpdateStatusItem(item_id, item.version + 1, new_parent_id, name,
                             item.item_type, item.bookmarked)
    IN  IF Blocked(c1) THEN c1
        ELSE move_update(Prepare(c1, mode), update_item)

\* a rename that moves with the default parent
rename_item_to_root(c, mode, item_id, new_name) ==
    LET c1 == get_item(c, item_id)
    IN  IF Blocked(c1) THEN c1
        ELSE move_item(c1, mode, item_id, ROOT_FOLDER, <<new_name>>)

\* rename_item (mode "sync") and rename_item_async (mode "async")
rename_item(c, mode, item_id, new_name) ==
    LET c1 == get_item(c, item_id)
    IN  IF Blocked(c1) THEN c1
        ELSE move_item(c1, mode, item_id, c1.ret[1].parent, <<new_name>>)

DeleteItem(id, version) == [ID |-> id, Version |-> version]

\* a delete that does not look at the Success flag of the answer
delete_request_unchecked(c, request) ==
    IF Blocked(c) THEN c
    ELSE IF ~HasAnswer(c) THEN Ask(c, "delete")
    ELSE LET response == BackendDelete(c.docs, request, Answer(c))
             c1 == [Sent(c, StorageRequest(c, "PUT", "delete", <<request>>))
                      EXCEPT !.docs = BackendDeleteItems(c.docs, request, Answer(c))]
         IN  IF response.net_error THEN Raise(c1, "DeleteError")
             ELSE IF response.status_code # 200 THEN Raise(c1, "DeleteError")
             ELSE IF response.json = <<>> THEN Raise(c1, "DeleteError")
             ELSE [c1 EXCEPT !.cache = NoCache, !.ret = <<>>, !.done = TRUE]

delete_request(c, request) ==
    IF Blocked(c) THEN c
    ELSE IF ~HasAnswer(c) THEN Ask(c, "delete")
    ELSE LET response == BackendDelete(c.docs, request, Answer(c))
             c1 == [Sent(c, StorageRequest(c, "PUT", "delete", <<request>>))
                      EXCEPT !.docs = BackendDeleteItems(c.docs, request, Answer(c))]
         IN  IF response.net_error THEN Raise(c1, "DeleteError")
             ELSE IF response.status_code # 200 THEN Raise(c1, "DeleteError")
             ELSE IF response.json = <<>> THEN Raise(c1, "DeleteError")
             ELSE IF ~response.json[1].Success THEN Raise(c1, "DeleteError")
             ELSE [c1 EXCEPT !.cache = NoCache, !.ret = <<>>, !.done = TRUE]

\* a delete that does not fetch the item and submits the first version
delete_item_unfetched(c, mode, item_id) ==
    delete_request(Prepare(Prologue(c, mode), mode), DeleteItem(item_id, 1))

\* delete_item (mode "sync") and delete_item_async (mode "async")
delete_item(c, mode, item_id) ==
    LET c1 == get_item(Prologue(c, mode), item_id)
    IN  IF Blocked(c1) THEN c1
        ELSE delete_request(Prepare(c1, mode), DeleteItem(item_id, c1.ret[1].version))

----------------------------------------------------------------------------
(* Item Repository: download_document *)

\* GET docs?doc=<id>&withBlob=true: the item, with a signed download URL
\* unless the backend has none for it
GetBlobAnswers == GetAnswers \cup {"nourl"}
BackendGetBlob(items, id, answer) ==
    IF answer \in {"ok", "nourl"}
    THEN HttpResponse(200, "",
            [i \in 1..Len(SelectSeq(items, LAMBDA it : it.id = id)) |->
                SelectSeq(items, LAMBDA it : it.id = id)[i] @@
                [blob_url_get |-> IF answer = "ok" THEN "blob-get-url" ELSE ""]])
    ELSE Fault(answer)

\* what the download URL serves: bytes that are an archive of named entries,
\* or bytes that are none
ZipBytes(entries) == [is_zip |-> TRUE, entries |-> entries, raw |-> ""]
RawBytes(raw) == [is_zip |-> FALSE, entries |-> <<>>, raw |-> raw]
NotZipBytes == RawBytes("not an archive")
ZipEntry(name, data) == [name |-> name, data |-> data]

PdfArchive == ZipBytes(<<ZipEntry(<<"A", ".", "p", "d", "f">>, RawBytes("pdf-1"))>>)
MixedArchive ==
    ZipBytes(<<ZipEntry(<<"A", ".", "c", "o", "n", "t", "e", "n", "t">>, RawBytes("meta")),
               ZipEntry(<<"a", ".", "p", "d", "f">>, RawBytes("pdf-1")),
               ZipEntry(<<"A", ".", "p", "d", "f">>, RawBytes("pdf-2"))>>)
NotebookArchive ==
    ZipBytes(<<ZipEntry(<<"A", ".", "c", "o", "n", "t", "e", "n", "t">>, RawBytes("meta")),
               ZipEntry(<<"p", "d", "f">>, RawBytes("pages")),
               ZipEntry(<<"A", ".", "p", "d", "f", "/">>, RawBytes("folder"))>>)
EmptyArchive == ZipBytes(<<>>)

\* GET <signed download URL>
BlobGetAnswers == {"pdf", "mixed", "notebook", "empty", "notzip", "http", "net"}
BlobContent(answer) ==
    CASE answer = "pdf" -> PdfArchive
      [] answer = "mixed" -> MixedArchive
      [] answer = "notebook" -> NotebookArchive
      [] answer = "empty" -> EmptyArchive
      [] answer = "notzip" -> NotZipBytes
BlobDownload(answer) ==
    IF answer \in {"http", "net"} THEN Fault(answer) @@ [content |-> NotZipBytes]
    ELSE HttpResponse(200, "", <<>>) @@ [content |-> BlobContent(answer)]

\* str.endswith
EndsWith(s, suffix) ==
    /\ Len(s) >= Len(suffix)
    /\ SubSeq(s, Len(s) - Len(suffix) + 1, Len(s)) = suffix

PDF_SUFFIX == <<".", "p", "d", "f">>

\* zf.namelist() filtered on the suffix
pdf_files(content) ==
    SelectSeq(content.entries, LAMBDA e : EndsWith(e.name, PDF_SUFFIX))

\* get_item(item_id, with_blob=True)
get_item_with_blob(c, item_id) ==
    LET c0 == get_auth_headers(storage_host_property(c))
        c2 == IF Blocked(c0) THEN c0
              ELSE IF ~HasAnswer(c0) THEN Ask(c0, "get_blob")
              ELSE LET response == BackendGetBlob(c0.docs, item_id, Answer(c0))
                       c1 == Sent(c0, StorageRequest(c0, "GET", "docs?doc&withBlob",
                                                     <<item_id>>))
                   IN  IF response.net_error THEN Raise(c1, "ListItemsError")
                       ELSE IF response.status_code = 404
                            THEN Raise(c1, "ItemNotFoundError")
                       ELSE IF response.status_code # 200
                            THEN Raise(c1, "ListItemsError")
                       ELSE IF response.json = <<>>
                            THEN Raise(c1, "ItemNotFoundError")
                       ELSE [c1 EXCEPT !.ret = <<response.json[1]>>]
    IN  [c2 EXCEPT !.headers = c.headers]

\* a download that keeps the archive whenever it is one
download_blob_keeps_archive(c, item) ==
    IF Blocked(c) THEN c
    ELSE IF item.blob_url_get = "" THEN Raise(c, "DownloadError")
    ELSE IF ~HasAnswer(c) THEN Ask(c, "blob_get")
    ELSE LET response == BlobDownload(Answer(c))
             c1 == Sent(c, [url |-> item.blob_url_get, method |-> "GET",
                            host |-> "blob-store", bearer |-> "", json |-> <<>>])
         IN  IF response.net_error THEN Raise(c1, "DownloadError")
             ELSE IF response.status_code # 200 THEN Raise(c1, "DownloadError")
             ELSE IF ~response.content.is_zip THEN Raise(c1, "DownloadError")
             ELSE [c1 EXCEPT !.written = <<response.content>>, !.ret = <<>>]

\* the download and the extraction, given the item
download_blob(c, item) ==
    IF Blocked(c) THEN c
    ELSE IF item.blob_url_get = "" THEN Raise(c, "DownloadError")
    ELSE IF ~HasAnswer(c) THEN Ask(c, "blob_get")
    ELSE LET response == BlobDownload(Answer(c))
             c1 == Sent(c, [url |-> item.blob_url_get, method |-> "GET",
                            host |-> "blob-store", bearer |-> "", json |-> <<>>])
         IN  IF response.net_error THEN Raise(c1, "DownloadError")
             ELSE IF response.status_code # 200 THEN Raise(c1, "DownloadError")
             ELSE IF ~response.content.is_zip THEN Raise(c1, "DownloadError")
             ELSE IF pdf_files(response.content) = <<>>
                  THEN [c1 EXCEPT !.written = <<response.content>>, !.ret = <<>>]
             ELSE [c1 EXCEPT !.written = <<pdf_files(response.content)[1].data>>,
                             !.ret = <<>>]

\* download_document and download_document_async
download_document(c, mode, item_id) ==
    LET c1 == get_item_with_blob(Prologue(c, mode), item_id)
    IN  IF Blocked(c1) THEN c1 ELSE download_blob(c1, c1.ret[1])

----------------------------------------------------------------------------
(* Running a call against the network *)

AnswersOf(endpoint) ==
    CASE endpoint = "token" -> TokenAnswers
      [] endpoint = "discovery" -> DiscoveryAnswers
      [] endpoint = "list" -> ListAnswers
      [] endpoint = "get" -> GetAnswers
      [] endpoint = "reserve" -> ReserveAnswers
      [] endpoint = "update" -> UpdateAnswers
      [] endpoint = "reserve_document" -> ReserveDocumentAnswers
      [] endpoint = "blob_put" -> BlobPutAnswers
      [] endpoint = "delete" -> DeleteAnswers
      [] endpoint = "device" -> DeviceAnswers
      [] endpoint = "get_blob" -> GetBlobAnswers
      [] endpoint = "blob_get" -> BlobGetAnswers

\* the calls of S, each one that stopped at a request run again with every
\* answer to that request added to its script
Extend(H(_), S) ==
    UNION { IF c.pending = "" THEN {c}
            ELSE {H(Append(c.script, a)) : a \in AnswersOf(c.pending)} : c \in S }

\* every way the call can end; no call sends more than seven requests
\* (rename_item: one discovery, three refreshes, three storage requests)
Outcomes(H(_)) ==
    Extend(H, Extend(H, Extend(H, Extend(H, Extend(H, Extend(H,
        Extend(H, {H(<<>>)})))))))

NoArgs ==
    [item_id |-> "", name |-> <<>>, parent_id |-> "", path |-> <<>>,
     tokens |-> NoTokens]

\* no call has returned a result the caller has not taken yet
NoCall == [op |-> "init", mode |-> "sync", args |-> NoArgs, outcome |-> "ok",
           ret |-> <<>>, path |-> <<>>, reqs |-> <<>>, script |-> <<>>]

\* the caller is between two calls
Idle == last = NoCall

\* the call ends: its effects on the client and the backend, and its record
Return(op, mode, args, c) ==
    /\ docs' = c.docs
    /\ next_id' = c.next_id
    /\ items_cache' = c.cache
    /\ storage_host' = c.host
    /\ tokens' = c.tokens
    /\ config_file' = c.file
    /\ last' = [op |-> op, mode |-> mode, args |-> args,
                outcome |-> IF c.err = "" THEN "ok" ELSE c.err,
                ret |-> IF c.err = "" THEN c.ret ELSE <<>>,
                path |-> IF c.err = "" THEN c.path ELSE <<>>,
                reqs |-> c.reqs, script |-> c.script]

Modes == {"sync", "async"}

\* display names requests carry
Names == {<<"a">>, <<"A">>}
\* paths asked of find_item_by_path
Paths ==
    {<<>>, <<"/">>, <<"/", "/">>, <<"/", "a">>, <<"/", "A">>, <<"a", "/", "A">>,
     <<"/", "a", "/", "a">>, <<"/", "a", "/", "A", "/">>}

IdsInUse == {Uuid(n) : n \in 1..next_id}

----------------------------------------------------------------------------
(* The operations *)

ListItems(mode) ==
    /\ Idle
    /\ \E c \in Outcomes(LAMBDA s : list_items(Begin(s))) :
        Return("list_items", mode, NoArgs, c)

GetItem(item_id) ==
    /\ Idle
    /\ \E c \in Outcomes(LAMBDA s : get_item(Begin(s), item_id)) :
        Return("get_item", "sync", [NoArgs EXCEPT !.item_id = item_id], c)

FindItemByPath(path) ==
    /\ Idle
    /\ \E c \in Outcomes(LAMBDA s : find_item_by_path(Begin(s), path)) :
        Return("find_item_by_path", "sync", [NoArgs EXCEPT !.path = path], c)

GetItemPath(item) ==
    /\ Idle
    /\ \E c \in Outcomes(LAMBDA s : get_item_path(Begin(s), item)) :
        Return("get_item_path", "sync",
               [NoArgs EXCEPT !.item_id = item.id, !.name = item.visible_name,
                              !.parent_id = item.parent], c)

CreateFolder(mode, name, parent_id) ==
    /\ Idle
    /\ next_id < MaxIds
    /\ \E c \in Outcomes(LAMBDA s : create_folder(Begin(s), mode, name, parent_id)) :
        Return("create_folder", mode,
               [NoArgs EXCEPT !.name = name, !.parent_id = parent_id], c)

UploadDocument(mode, file, name, parent_id) ==
    /\ Idle
    /\ next_id < MaxIds
    /\ \E c \in Outcomes(LAMBDA s :
                 upload_document(Begin(s), mode, file, name, parent_id)) :
        Return("upload_document", mode,
               [NoArgs EXCEPT !.name = name, !.parent_id = parent_id,
                              !.path = IF file.exists THEN file.stem ELSE <<>>], c)

\* the backend keeps versions within MaxVersion
Movable(item_id) ==
    \A k \in 1..Len(docs) : docs[k].id = item_id => docs[k].version < MaxVersion

MoveItem(mode, item_id, new_parent_id, new_name) ==
    /\ Idle
    /\ Movable(item_id)
    /\ \E c \in Outcomes(LAMBDA s :
                 move_item(Begin(s), mode, item_id, new_parent_id, new_name)) :
        Return("move_item", mode,
               [NoArgs EXCEPT !.item_id = item_id, !.name = new_name,
                              !.parent_id = new_parent_id], c)

RenameItem(mode, item_id, new_name) ==
    /\ Idle
    /\ Movable(item_id)
    /\ \E c \in Outcomes(LAMBDA s : rename_item(Begin(s), mode, item_id, new_name)) :
        Return("rename_item", mode,
               [NoArgs EXCEPT !.item_id = item_id, !.name = <<new_name>>], c)

DeleteItemCall(mode, item_id) ==
    /\ Idle
    /\ \E c \in Outcomes(LAMBDA s : delete_item(Begin(s), mode, item_id)) :
        /\ \A k \in 1..Len(c.docs) : c.docs[k].version <= MaxVersion
        /\ Return("delete_item", mode, [NoArgs EXCEPT !.item_id = item_id], c)

\* what a call of the Session Manager hands back
Returning(c, value) == IF Blocked(c) THEN c ELSE [c EXCEPT !.ret = <<value>>]

RegisterDevice(mode, code) ==
    /\ Idle
    /\ \E c \in Outcomes(LAMBDA s : register_device(Begin(s), code)) :
        Return("register_device", mode, [NoArgs EXCEPT !.item_id = code],
               Returning(c, c.tokens))

RefreshUserToken(mode) ==
    /\ Idle
    /\ \E c \in Outcomes(LAMBDA s : refresh_user_token(Begin(s))) :
        Return("refresh_user_token", mode, NoArgs,
               Returning(c, c.tokens.user_token))

EnsureAuthenticated(mode) ==
    /\ Idle
    /\ \E c \in Outcomes(LAMBDA s : ensure_authenticated(Begin(s))) :
        Return("ensure_authenticated", mode, NoArgs, Returning(c, c.tokens))

\* a direct call of discover_storage_host: the host is returned, not kept
DiscoverStorageHost(mode) ==
    /\ Idle
    /\ \E c \in Outcomes(LAMBDA s : discover_storage_host(Begin(s))) :
        Return("discover_storage_host", mode, NoArgs, Returning(c, c.ret))

\* tokens given to save_tokens
GivenTokens ==
    {NoTokens, AuthTokens("saved-device-token", ""),
     AuthTokens("saved-device-token", "saved-user-token")}

SaveTokens(pair) ==
    /\ Idle
    /\ LET c == save_tokens(Begin(<<>>), pair)
       IN  Return("save_tokens", "sync", [NoArgs EXCEPT !.tokens = pair], c)

GetHttpClient ==
    /\ Idle
    /\ \E c \in Outcomes(LAMBDA s : get_http_client(Begin(s))) :
        Return("get_http_client", "sync", NoArgs, c)

LoadTokens ==
    /\ Idle
    /\ LET c == load_tokens(Begin(<<>>))
       IN  Return("load_tokens", "sync", NoArgs,
                  [c EXCEPT !.ret = IF c.file.exists THEN <<c.tokens>> ELSE <<>>])

\* another client of the same account changes or deletes an item
OtherClient(k, name, parent_id, deletes) ==
    /\ Idle
    /\ deletes \/ docs[k].version < MaxVersion
    /\ docs' = IF deletes
               THEN SelectSeq(docs, LAMBDA it : it.id # docs[k].id)
               ELSE [docs EXCEPT ![k] = [@ EXCEPT !.version = @ + 1,
                                                  !.visible_name = name,
                                                  !.parent = parent_id]]
    /\ UNCHANGED <<next_id, items_cache, storage_host, tokens, config_file, last>>

\* the caller has looked at the result of the call and goes on
TakeResult ==
    /\ last # NoCall
    /\ last' = NoCall
    /\ UNCHANGED <<docs, next_id, items_cache, storage_host, tokens, config_file>>

----------------------------------------------------------------------------
(* The client as constructed, and the client in use *)

\* local files given to upload_document
Files == {[exists |-> FALSE, stem |-> <<>>], [exists |-> TRUE, stem |-> <<"A">>]}

Init ==
    /\ docs = <<>>
    /\ next_id = 0
    /\ items_cache = NoCache
    /\ storage_host = None
    /\ tokens = NoTokens
    /\ config_file \in {NoFile, FileOf(AuthTokens("device-token", ""))}
    /\ last = NoCall

Parents == IdsInUse \cup {ROOT_FOLDER}
OptionalNames == {NoName} \cup {<<n>> : n \in Names}

\* the reads of the Item Repository
Reads ==
    \/ \E mode \in Modes : ListItems(mode)
    \/ \E id \in IdsInUse : GetItem(id)
    \/ \E path \in Paths : FindItemByPath(path)
    \/ \E k \in 1..Len(docs) : GetItemPath(docs[k])
    \/ \E id \in DOMAIN items_cache.dict : GetItemPath(items_cache.dict[id])

\* its mutating operations
Mutations ==
    \/ \E mode \in Modes, name \in Names, parent_id \in Parents :
          CreateFolder(mode, name, parent_id)
    \/ \E mode \in Modes, file \in Files, name \in {NoName, <<<<"a">>>>},
          parent_id \in Parents : UploadDocument(mode, file, name, parent_id)
    \/ \E mode \in Modes, id \in IdsInUse, parent_id \in Parents,
          name \in OptionalNames : MoveItem(mode, id, parent_id, name)
    \/ \E mode \in Modes, id \in IdsInUse, name \in Names : RenameItem(mode, id, name)
    \/ \E mode \in Modes, id \in IdsInUse : DeleteItemCall(mode, id)

OtherClients ==
    \E k \in 1..Len(docs), name \in Names, parent_id \in Parents, deletes \in BOOLEAN :
        OtherClient(k, name, parent_id, deletes)

Next ==
    \/ Reads
    \/ Mutations
    \/ \E mode \in Modes : RegisterDevice(mode, "code")
    \/ OtherClients
    \/ TakeResult

Spec == Init /\ [][Next]_vars

----------------------------------------------------------------------------
(* The Item Repository in use: the host is known and the credentials are   *)
(* loaded, as after CloudClient.from_config() and one storage request      *)
(***************************************************************************)

RepoInit ==
    /\ docs = <<>>
    /\ next_id = 0
    /\ items_cache = NoCache
    /\ storage_host = DEFAULT_STORAGE_HOST
    /\ tokens = AuthTokens("device-token", "user-token")
    /\ config_file = FileOf(tokens)
    /\ last = NoCall

RepoNext ==
    \/ Reads
    \/ Mutations
    \/ TakeResult

RepoSpec == RepoInit /\ [][RepoNext]_vars

----------------------------------------------------------------------------
(* The same client on an account other clients work on too *)

SharedNext ==
    \/ Reads
    \/ \E mode \in Modes, name \in Names, parent_id \in Parents :
          CreateFolder(mode, name, parent_id)
    \/ OtherClients
    \/ TakeResult

SharedSpec == RepoInit /\ [][SharedNext]_vars

----------------------------------------------------------------------------
(* Path resolution over the item trees a backend can hold: the repository  *)
(* trusts the backend, so names and parent pointers are arbitrary          *)
(***************************************************************************)

\* display names of the items of a tree
TreeNames == {<<"a">>, <<"A">>, <<"a", "/", "a">>}

SeqsUpTo(S, n) == UNION {[1..m -> S] : m \in 0..n}

\* the listings of at most MaxTree items with distinct identifiers
Trees ==
    UNION { { [k \in 1..m |->
                 CloudItem(Uuid(k), 1, COLLECTION, shape[k].name,
                           shape[k].parent, FALSE)] :
              shape \in [1..m -> [name : TreeNames,
                                  parent : {ROOT_FOLDER} \cup {Uuid(j) : j \in 1..m}]] }
            : m \in 0..MaxTree }

PathInit ==
    /\ docs \in Trees
    /\ next_id = Len(docs)
    /\ items_cache = NoCache
    /\ storage_host = DEFAULT_STORAGE_HOST
    /\ tokens = AuthTokens("device-token", "user-token")
    /\ config_file = FileOf(tokens)
    /\ last = NoCall

PathNext ==
    \/ Reads
    \/ TakeResult

PathSpec == PathInit /\ [][PathNext]_vars

----------------------------------------------------------------------------
(* Properties of the Item Repository *)

MutatingOps ==
    {"create_folder", "upload_document", "move_item", "rename_item", "delete_item"}
ListingOps == {"list_items", "find_item_by_path", "get_item_path"}

\* the request of the last call that went to an endpoint, and its answer
RequestsTo(endpoint) ==
    {i \in 1..Len(last.reqs) : last.reqs[i].url = endpoint}
AnswerTo(i) == last.script[i]

\* C1: after a successful create_folder, upload_document, move_item,
\* rename_item or delete_item, in either mode, the item cache is None; and a
\* cache that is None becomes a dict only in a call that sent a listing
\* request which was answered with success
C1_ClearedBySuccessfulMutation ==
    [][ /\ (last'.op \in MutatingOps /\ last'.outcome = "ok")
            => items_cache' = NoCache
        /\ (items_cache = NoCache /\ items_cache' # NoCache)
            => /\ last'.op \in ListingOps
               /\ \E i \in 1..Len(last'.reqs) :
                     last'.reqs[i].url = "docs" /\ last'.script[i] = "ok" ]_vars

\* a move succeeded on an item of the backend and the cache is None
C1_Witness ==
    /\ last.op \in {"move_item", "rename_item"}
    /\ last.mode = "async"
    /\ last.outcome = "ok"
    /\ docs # <<>>
    /\ items_cache = NoCache

\* C2: every mutating call, also one that ends in an error, leaves the item
\* cache None
C2_ClearedByEveryMutation ==
    last.op \in MutatingOps => items_cache = NoCache

\* the items the cache describes: none when it is None
CachedItems ==
    IF items_cache.is_none THEN {}
    ELSE {items_cache.dict[i] : i \in DOMAIN items_cache.dict}

\* C3: after a list_items or list_items_async that returned normally, the
\* cache describes exactly the items returned, none when none were returned
C3_CacheIsLastListing ==
    (last.op = "list_items" /\ last.outcome = "ok")
        => CachedItems = Range(last.ret)

\* C4: with the session refreshed, list_items on a backend without items that
\* answers with success returns the empty list; ListItemsError is raised
\* exactly when the listing request got a non-success status or a network
\* error
C4_EmptyListingIsNoError ==
    last.op = "list_items" =>
        /\ \A i \in RequestsTo("docs") :
              (AnswerTo(i) = "ok" /\ docs = <<>>)
                  => (last.outcome = "ok" /\ last.ret = <<>>)
        /\ last.outcome = "ListItemsError"
              <=> \E i \in RequestsTo("docs") : AnswerTo(i) \in {"http", "net"}

C4_Witness ==
    /\ last.op = "list_items"
    /\ docs = <<>>
    /\ last.outcome = "ok"
    /\ last.ret = <<>>
    /\ RequestsTo("docs") # {}

\* the path without its leading and trailing slashes, by position
Trimmed(path) ==
    LET inner == {i \in 1..Len(path) : path[i] # SLASH}
    IN  IF inner = {} THEN <<>>
        ELSE SubSeq(path, CHOOSE i \in inner : \A j \in inner : i <= j,
                          CHOOSE i \in inner : \A j \in inner : j <= i)

\* C5: find_item_by_path of a path made of slashes only returns None in every
\* state, and sends no request
C5_RootIsAbsentWithoutListing ==
    (last.op = "find_item_by_path" /\ Trimmed(last.args.path) = <<>>)
        => /\ last.outcome = "ok"
           /\ last.ret = Absent
           /\ last.reqs = <<>>

----------------------------------------------------------------------------
(* Properties of path resolution *)

\* the items from a root item down to x, when x is n levels deep; <<>> when
\* x is not n levels below the root of the listing
RECURSIVE ChainTo(_, _, _)
ChainTo(items, x, n) ==
    IF n = 1 THEN (IF x.parent = ROOT_FOLDER THEN <<x>> ELSE <<>>)
    ELSE LET k == Position(items, x.parent)
             above == IF k = 0 THEN <<>> ELSE ChainTo(items, items[k], n - 1)
         IN  IF above = <<>> THEN <<>> ELSE Append(above, x)

Slashes(s) == Cardinality({i \in 1..Len(s) : s[i] = SLASH})

\* x is the item the segments of s name, one item per segment
Spells(items, x, s) ==
    LET chain == ChainTo(items, x, Slashes(s) + 1)
    IN  /\ chain # <<>>
        /\ Join([i \in 1..Len(chain) |-> chain[i].visible_name]) = s

\* no item before x in the listing has the parent and the name of x
FirstOfItsName(items, x) ==
    LET k == Position(items, x.id)
    IN  \A j \in 1..(k - 1) :
           ~(items[j].parent = x.parent /\ items[j].visible_name = x.visible_name)

\* every item on the way down to x is the first of its name
FirstAllTheWay(items, x, s) ==
    LET chain == ChainTo(items, x, Slashes(s) + 1)
    IN  \A i \in 1..Len(chain) : FirstOfItsName(items, chain[i])

\* no two items of a parent have the same name, every parent is listed, and
\* following parents ends at the root
NoDuplicateSiblings(items) ==
    \A i, j \in 1..Len(items) :
        (i # j /\ items[i].parent = items[j].parent)
            => items[i].visible_name # items[j].visible_name
Depth(items, x) ==
    IF \E n \in 1..Len(items) : ChainTo(items, x, n) # <<>>
    THEN CHOOSE n \in 1..Len(items) : ChainTo(items, x, n) # <<>>
    ELSE 0
WellFormedTree(items) ==
    /\ NoDuplicateSiblings(items)
    /\ \A k \in 1..Len(items) : Depth(items, items[k]) # 0

\* the answers of a call whose every request succeeds
AllOk == <<"ok", "ok", "ok", "ok", "ok", "ok", "ok">>

\* C6: in a tree without duplicate sibling names, dangling parents or cycles,
\* resolving the path get_item_path computed for an item of the tree, from a
\* cache of that tree, gives that item
C6_PathRoundTrip ==
    (/\ last.op = "get_item_path"
     /\ last.outcome = "ok"
     /\ WellFormedTree(docs)
     /\ items_cache = CacheOf(DictOf(docs))
     /\ Position(docs, last.args.item_id) # 0)
        => LET x == docs[Position(docs, last.args.item_id)]
               found == find_item_by_path(Begin(AllOk), last.path)
           IN  found.err = "" /\ found.ret = Present(x)

\* C7: find_item_by_path walks the segments of the stripped path from the
\* root of the listing the backend gave during the call: a result is the item
\* the segments name exactly, one level per segment, and None is returned
\* only for the root path or when no chain of first matches spells the path
C7_WalksTheListing ==
    (last.op = "find_item_by_path" /\ last.outcome = "ok")
        => LET s == Trimmed(last.args.path)
           IN  /\ s = <<>> => last.ret = Absent
               /\ last.ret # Absent
                    => /\ last.ret[1] \in Range(docs)
                       /\ Spells(docs, last.ret[1], s)
               /\ (last.ret = Absent /\ s # <<>>)
                    => ~\E x \in Range(docs) :
                           Spells(docs, x, s) /\ FirstAllTheWay(docs, x, s)

\* an item below the root was found
C7_Witness ==
    /\ last.op = "find_item_by_path"
    /\ last.outcome = "ok"
    /\ last.ret # Absent
    /\ last.ret[1].parent # ROOT_FOLDER

\* C8: among siblings of the same name find_item_by_path takes the first in
\* listing order at every level, and when the first ones lead nowhere it
\* returns None although later duplicates spell the path
C8_FirstSeenWins ==
    (last.op = "find_item_by_path" /\ last.outcome = "ok")
        => LET s == Trimmed(last.args.path)
           IN  /\ last.ret # Absent => FirstAllTheWay(docs, last.ret[1], s)
               /\ (\A x \in Range(docs) :
                       Spells(docs, x, s) => ~FirstAllTheWay(docs, x, s))
                    => last.ret = Absent

\* a later duplicate spells the path and the walk, below the first, found
\* nothing
C8_Witness ==
    /\ last.op = "find_item_by_path"
    /\ last.outcome = "ok"
    /\ last.ret = Absent
    /\ \E x \in Range(docs) : Spells(docs, x, Trimmed(last.args.path))

----------------------------------------------------------------------------
(* Properties of create_folder *)

\* C9: after a create_folder the backend accepted, get_item on the id of the
\* returned item gives a COLLECTION with the requested name and parent, under
\* the identifier of the reservation
C9_CreatedFolderIsThere ==
    (/\ last.op = "create_folder"
     /\ last.outcome = "ok"
     /\ \A i \in 1..Len(last.script) : last.script[i] = "ok")
        => LET got == get_item(Begin(AllOk), last.ret[1].id)
           IN  /\ got.err = ""
               /\ got.ret[1].item_type = COLLECTION
               /\ got.ret[1].visible_name = last.args.name
               /\ got.ret[1].parent = last.args.parent_id
               /\ \A i \in RequestsTo("upload/request") :
                     got.ret[1].id = last.reqs[i].json[1].ID

C9_Witness ==
    /\ last.op = "create_folder"
    /\ last.outcome = "ok"
    /\ \A i \in 1..Len(last.script) : last.script[i] = "ok"
    /\ last.args.parent_id # ROOT_FOLDER

\* C10: create_folder sends the metadata request only after a reservation
\* that was answered with success, both for the same new identifier as a
\* COLLECTION at version 1; a reservation answered with a non-success status
\* or a failure flag raises CreateFolderError and no metadata request
\* follows; a metadata request answered with a non-success status or an empty
\* body raises CreateFolderError
C10_TwoPhasesInOrder ==
    last.op = "create_folder" =>
        /\ \A j \in RequestsTo("upload/update-status") :
              \E i \in RequestsTo("upload/request") :
                 /\ i < j
                 /\ AnswerTo(i) = "ok"
                 /\ last.reqs[i].json[1] =
                        UploadRequestItem(Uuid(next_id), 1, COLLECTION)
                 /\ last.reqs[j].json[1].ID = Uuid(next_id)
                 /\ last.reqs[j].json[1].Type = COLLECTION
                 /\ last.reqs[j].json[1].Version = 1
        /\ \A i \in RequestsTo("upload/request") :
              AnswerTo(i) \in {"http", "refused"}
                 => /\ last.outcome = "CreateFolderError"
                    /\ RequestsTo("upload/update-status") = {}
        /\ \A j \in RequestsTo("upload/update-status") :
              AnswerTo(j) \in {"http", "empty"} => last.outcome = "CreateFolderError"

\* the reservation succeeded and the metadata step failed
C10_Witness ==
    /\ last.op = "create_folder"
    /\ last.outcome = "CreateFolderError"
    /\ RequestsTo("upload/request") # {}
    /\ RequestsTo("upload/update-status") # {}

----------------------------------------------------------------------------
(* Moving, renaming and deleting the items an account already holds:       *)
(* folders and documents, bookmarked or not                                *)
(***************************************************************************)

\* the accounts: a folder, alone or with a second item at the root or in it
EditTrees ==
    { <<CloudItem(Uuid(1), 1, COLLECTION, <<"a">>, ROOT_FOLDER, b)>> :
          b \in BOOLEAN }
    \cup
    { <<CloudItem(Uuid(1), 1, COLLECTION, <<"a">>, ROOT_FOLDER, FALSE),
        CloudItem(Uuid(2), 1, t, <<"A">>, p, b)>> :
          t \in {COLLECTION, DOCUMENT}, p \in {ROOT_FOLDER, Uuid(1)},
          b \in BOOLEAN }

EditInit ==
    /\ docs \in EditTrees
    /\ next_id = Len(docs)
    /\ items_cache = NoCache
    /\ storage_host = DEFAULT_STORAGE_HOST
    /\ tokens = AuthTokens("device-token", "user-token")
    /\ config_file = FileOf(tokens)
    /\ last = NoCall

EditNext ==
    \/ \E mode \in Modes, id \in IdsInUse, parent_id \in {ROOT_FOLDER, Uuid(1)},
          name \in {NoName, <<<<"a">>>>} : MoveItem(mode, id, parent_id, name)
    \/ \E mode \in Modes, id \in IdsInUse, name \in Names : RenameItem(mode, id, name)
    \/ \E mode \in Modes, id \in IdsInUse : DeleteItemCall(mode, id)
    \/ TakeResult

EditSpec == EditInit /\ [][EditNext]_vars

----------------------------------------------------------------------------
(* Properties of move_item, rename_item and delete_item *)

\* the item of an identifier in a listing; used where the item is listed
ItemOf(items, id) == items[Position(items, id)]

\* C11: move_item sends at most one metadata update, and that one carries
\* the version before the call + 1, the requested parent, the requested name
\* or else the name before the call, and the kind and the bookmarked flag
\* before the call; when the backend accepts it the item's version is the
\* version before the call + 1; an answer with a failure flag raises
\* MoveError; a move that returns has sent the update
C11_MoveResubmitsWithNextVersion ==
    [][ last'.op = "move_item" =>
          LET id == last'.args.item_id
              U == {j \in 1..Len(last'.reqs) :
                       last'.reqs[j].url = "upload/update-status"}
          IN  /\ Cardinality(U) <= 1
              /\ last'.outcome = "ok" => U # {}
              /\ \A j \in U :
                    /\ Position(docs, id) # 0
                    /\ \E i \in 1..(j - 1) : last'.reqs[i].url = "docs?doc"
                    /\ last'.reqs[j].json[1] =
                          [ID |-> id,
                           Version |-> ItemOf(docs, id).version + 1,
                           Parent |-> last'.args.parent_id,
                           VissibleName |->
                               IF last'.args.name = NoName
                               THEN ItemOf(docs, id).visible_name
                               ELSE last'.args.name[1],
                           Type |-> ItemOf(docs, id).item_type,
                           Bookmarked |-> ItemOf(docs, id).bookmarked]
                    /\ last'.script[j] = "ok" =>
                          /\ last'.outcome = "ok"
                          /\ ItemOf(docs', id).version = ItemOf(docs, id).version + 1
                    /\ last'.script[j] = "refused" => last'.outcome = "MoveError" ]_vars

\* a bookmarked document was moved under its own name
C11_Witness ==
    /\ last.op = "move_item"
    /\ last.outcome = "ok"
    /\ last.args.name = NoName
    /\ last.ret[1].bookmarked
    /\ last.ret[1].item_type = DOCUMENT
    /\ last.ret[1].version = 2
    /\ last.ret[1].parent = Uuid(1)

\* C12: a rename_item that returns has moved the item to the parent it had:
\* the update it sent names that parent, and the item after the call is the
\* item before it with the new name and the next version, every other item
\* as before
C12_RenameKeepsTheRest ==
    [][ (last'.op = "rename_item" /\ last'.outcome = "ok") =>
          LET id == last'.args.item_id
          IN  /\ Position(docs, id) # 0
              /\ Position(docs', id) # 0
              /\ \A j \in 1..Len(last'.reqs) :
                    last'.reqs[j].url = "upload/update-status"
                        => last'.reqs[j].json[1].Parent = ItemOf(docs, id).parent
              /\ ItemOf(docs', id).parent = ItemOf(docs, id).parent
              /\ ItemOf(docs', id).item_type = ItemOf(docs, id).item_type
              /\ ItemOf(docs', id).bookmarked = ItemOf(docs, id).bookmarked
              /\ ItemOf(docs', id).visible_name = last'.args.name[1]
              /\ ItemOf(docs', id).version = ItemOf(docs, id).version + 1
              /\ Len(docs') = Len(docs)
              /\ \A k \in 1..Len(docs) : docs[k].id # id => docs'[k] = docs[k] ]_vars

\* a bookmarked document in a folder was renamed
C12_Witness ==
    /\ last.op = "rename_item"
    /\ last.outcome = "ok"
    /\ last.ret[1].parent = Uuid(1)
    /\ last.ret[1].bookmarked
    /\ last.ret[1].item_type = DOCUMENT
    /\ last.ret[1].visible_name = <<"a">>

\* C13: delete_item sends at most one delete request, keyed by the identifier
\* and the version the backend held when the call fetched the item, after a
\* fetch of that item that was answered, with nothing but token exchanges
\* between the two; when the backend holds another version by the time the
\* delete arrives the call raises DeleteError and the item stays
C13_DeleteByFetchedVersion ==
    [][ last'.op = "delete_item" =>
          LET id == last'.args.item_id
              D == {j \in 1..Len(last'.reqs) : last'.reqs[j].url = "delete"}
          IN  /\ Cardinality(D) <= 1
              /\ \A j \in D :
                    /\ Position(docs, id) # 0
                    /\ last'.reqs[j].json[1] =
                           [ID |-> id, Version |-> ItemOf(docs, id).version]
                    /\ \E i \in 1..(j - 1) :
                          /\ last'.reqs[i].url = "docs?doc"
                          /\ last'.reqs[i].json = <<id>>
                          /\ last'.script[i] = "ok"
                          /\ \A m \in (i + 1)..(j - 1) :
                                last'.reqs[m].url = "user/new"
                    /\ last'.script[j] = "raced" =>
                          /\ last'.outcome = "DeleteError"
                          /\ Position(docs', id) # 0
                    /\ (/\ Position(docs', id) # 0
                        /\ ItemOf(docs', id).version # last'.reqs[j].json[1].Version)
                          => last'.outcome = "DeleteError" ]_vars

\* another client updated the item between the fetch and the delete
C13_Witness ==
    /\ last.op = "delete_item"
    /\ last.outcome = "DeleteError"
    /\ \E j \in RequestsTo("delete") :
          /\ AnswerTo(j) = "raced"
          /\ Position(docs, last.args.item_id) # 0
          /\ ItemOf(docs, last.args.item_id).version = last.reqs[j].json[1].Version + 1

\* C14: delete_item returns True only after a delete request the backend
\* answered with success, a non-empty body and no failure flag; a delete
\* request answered with a non-success status, an empty body or a failure
\* flag raises DeleteError; when the fetch finds no item (404, or an empty
\* answer because the backend does not hold it) the call raises
\* ItemNotFoundError and sends no delete request
C14_DeleteOutcomes ==
    [][ last'.op = "delete_item" =>
          LET id == last'.args.item_id
              D == {j \in 1..Len(last'.reqs) : last'.reqs[j].url = "delete"}
              G == {i \in 1..Len(last'.reqs) : last'.reqs[i].url = "docs?doc"}
          IN  /\ last'.outcome = "ok" =>
                    /\ \E j \in D : last'.script[j] = "ok"
                    /\ Position(docs', id) = 0
              /\ \A j \in D :
                    last'.script[j] \in {"http", "empty", "refused"}
                        => last'.outcome = "DeleteError"
              /\ \A i \in G :
                    (\/ last'.script[i] = "notfound"
                     \/ last'.script[i] = "ok" /\ Position(docs, id) = 0)
                        => last'.outcome = "ItemNotFoundError" /\ D = {}
              /\ last'.outcome = "ItemNotFoundError" => D = {} ]_vars

\* the item was not there: the fetch was answered and no delete was sent
C14_Witness ==
    /\ last.op = "delete_item"
    /\ last.outcome = "ItemNotFoundError"
    /\ \E i \in RequestsTo("docs?doc") : AnswerTo(i) = "ok"
    /\ RequestsTo("delete") = {}

----------------------------------------------------------------------------
(* Properties of upload_document *)

\* C15: an upload of a local file that does not exist raises
\* FileNotFoundError and has sent no request, in either mode
C15_MissingFileBeforeNetwork ==
    (last.op = "upload_document" /\ last.args.path = <<>>)
        => /\ last.outcome = "FileNotFoundError"
           /\ last.reqs = <<>>

\* the content PUTs of the last call
BlobPuts ==
    {i \in 1..Len(last.reqs) :
        "host" \in DOMAIN last.reqs[i] /\ last.reqs[i].host = "blob-store"}

\* C16: upload_document sends at most one reservation, one content PUT and
\* one metadata update, in this order: the reservation is for a new
\* identifier as DOCUMENT at version 1; the content goes to the URL of a
\* reservation answered with success and an upload URL; the metadata, for the
\* same identifier, follows a content PUT answered with success; a
\* reservation that fails or brings no URL raises UploadError and nothing
\* follows it, and a content PUT that fails raises UploadError and no
\* metadata follows it
C16_UploadStepsInOrder ==
    last.op = "upload_document" =>
        LET R == RequestsTo("upload/request")
            U == RequestsTo("upload/update-status")
        IN  /\ Cardinality(R) <= 1 /\ Cardinality(BlobPuts) <= 1 /\ Cardinality(U) <= 1
            /\ \A r \in R :
                  /\ last.reqs[r].json[1] =
                        [ID |-> Uuid(next_id), Version |-> 1, Type |-> DOCUMENT]
                  /\ AnswerTo(r) \in {"http", "empty", "refused", "nourl", "net"}
                        => /\ last.outcome = "UploadError"
                           /\ BlobPuts = {} /\ U = {}
            /\ \A b \in BlobPuts :
                  /\ \E r \in R : r < b /\ AnswerTo(r) = "ok"
                  /\ last.reqs[b].url = "blob-url"
                  /\ AnswerTo(b) \in {"http", "net"}
                        => last.outcome = "UploadError" /\ U = {}
            /\ \A u \in U :
                  /\ \E b \in BlobPuts : b < u /\ AnswerTo(b) \in {"ok", "created"}
                  /\ last.reqs[u].json[1].ID = Uuid(next_id)
                  /\ last.reqs[u].json[1].Type = DOCUMENT
            /\ last.outcome = "ok" => U # {}

\* the reservation succeeded, the content PUT failed, and the call stopped
C16_Witness ==
    /\ last.op = "upload_document"
    /\ last.outcome = "UploadError"
    /\ \E b \in BlobPuts : AnswerTo(b) = "http"
    /\ RequestsTo("upload/update-status") = {}

----------------------------------------------------------------------------
(* The Session Manager from construction on: nothing is held in memory,    *)
(* and the credential file is absent or was written by an earlier run      *)
(***************************************************************************)

\* the credential files an earlier run, or the user, can have left
CredentialFiles ==
    {NoFile,
     FileOf(AuthTokens("old-device-token", "old-user-token")),
     FileOf(AuthTokens("old-device-token", "")),
     FileOf(AuthTokens("", "")),
     [FileOf(AuthTokens("old-device-token", "old-user-token"))
         EXCEPT !.mode = CREATED_FILE_MODE]}

AuthInit ==
    /\ docs = <<>>
    /\ next_id = 0
    /\ items_cache = NoCache
    /\ storage_host = None
    /\ tokens = NoTokens
    /\ config_file \in CredentialFiles
    /\ last = NoCall

AuthNext ==
    \/ \E mode \in Modes : RegisterDevice(mode, "code")
    \/ \E mode \in Modes : RefreshUserToken(mode)
    \/ \E mode \in Modes : EnsureAuthenticated(mode)
    \/ LoadTokens
    \/ \E pair \in GivenTokens : SaveTokens(pair)
    \/ \E mode \in Modes : ListItems(mode)
    \/ TakeResult

AuthSpec == AuthInit /\ [][AuthNext]_vars

----------------------------------------------------------------------------
(* Properties of the Session Manager *)

\* C17: register_device sends one request; answered with success and a
\* non-empty body, the pair held becomes that body with an empty session
\* credential and is returned; answered with a non-success status or an empty
\* body, or not answered, the call raises DeviceRegistrationError and the
\* pair held is the one held before
C17_RegisterDevice ==
    [][ last'.op = "register_device" =>
          /\ Len(last'.reqs) = 1
          /\ last'.reqs[1].url = "device/new"
          /\ last'.script[1] = "ok" =>
                /\ last'.outcome = "ok"
                /\ tokens' = [is_none |-> FALSE,
                              device_token |-> DeviceService("ok").text,
                              user_token |-> ""]
                /\ last'.ret = <<tokens'>>
          /\ last'.script[1] \in {"http", "empty", "net"} =>
                /\ last'.outcome = "DeviceRegistrationError"
                /\ tokens' = tokens ]_vars

\* a device was registered on a client that held a session credential
C17_Witness ==
    /\ last.op = "register_device"
    /\ last.outcome = "ok"
    /\ tokens = AuthTokens("device-token", "")
    /\ config_file.exists /\ config_file.usertoken = "user-token"

\* C18: refresh_user_token without a pair or with an empty device credential
\* raises AuthError and sends nothing; otherwise it sends one token exchange
\* under the device credential, raises TokenRefreshError when that is
\* answered with a non-success status or an empty body, and on success
\* returns the new session credential, the pair held then being the old
\* device credential with the new session credential
C18_RefreshUserToken ==
    [][ last'.op = "refresh_user_token" =>
          IF tokens.is_none \/ tokens.device_token = ""
          THEN last'.outcome = "AuthError" /\ last'.reqs = <<>>
          ELSE /\ last'.reqs =
                     <<[url |-> "user/new", bearer |-> tokens.device_token]>>
               /\ last'.script[1] \in {"http", "empty"} =>
                     last'.outcome = "TokenRefreshError"
               /\ last'.script[1] = "ok" =>
                     /\ last'.outcome = "ok"
                     /\ last'.ret = <<TokenService("ok").text>>
                     /\ tokens' = [is_none |-> FALSE,
                                   device_token |-> tokens.device_token,
                                   user_token |-> TokenService("ok").text] ]_vars

\* a loaded pair got a new session credential by a direct refresh
C18_Witness ==
    /\ last.op = "refresh_user_token"
    /\ last.outcome = "ok"
    /\ tokens = AuthTokens("old-device-token", "user-token")

\* the pair ensure_authenticated works on: the one held, or else the one of
\* the credential file
HeldOrPersisted ==
    IF ~tokens.is_none THEN tokens
    ELSE IF config_file.exists
    THEN [is_none |-> FALSE, device_token |-> config_file.devicetoken,
          user_token |-> config_file.usertoken]
    ELSE tokens

\* one token exchange under the device credential of the pair; on success the
\* pair with the new session credential is held, persisted and returned
ExchangesOnce(pair) ==
    /\ last'.reqs = <<[url |-> "user/new", bearer |-> pair.device_token]>>
    /\ last'.script[1] = "ok" =>
          /\ last'.outcome = "ok"
          /\ tokens' = [is_none |-> FALSE, device_token |-> pair.device_token,
                        user_token |-> TokenService("ok").text]
          /\ config_file' = [exists |-> TRUE, mode |-> 384,
                             devicetoken |-> tokens'.device_token,
                             usertoken |-> tokens'.user_token]
          /\ last'.ret = <<tokens'>>

\* C19, as stated: ensure_authenticated works on the pair held, or, when none
\* is held, on the persisted one; without a pair it raises AuthError and
\* sends nothing; with a pair every call sends exactly one token exchange
\* and, on success, holds, persists and returns the pair with the same device
\* credential and the session credential of this exchange
C19_AlwaysOneExchange ==
    [][ last'.op = "ensure_authenticated" =>
          IF HeldOrPersisted.is_none
          THEN last'.outcome = "AuthError" /\ last'.reqs = <<>>
          ELSE ExchangesOnce(HeldOrPersisted) ]_vars

\* C19, amended: as stated, except that with a pair whose device credential
\* is empty the call raises AuthError and sends nothing; with a non-empty
\* device credential every call, also one that finds a session credential in
\* hand, sends exactly one token exchange
C19_OneExchangePerDeviceCredential ==
    [][ last'.op = "ensure_authenticated" =>
          IF HeldOrPersisted.is_none \/ HeldOrPersisted.device_token = ""
          THEN last'.outcome = "AuthError" /\ last'.reqs = <<>>
          ELSE ExchangesOnce(HeldOrPersisted) ]_vars

\* the call refreshed a pair that already had a session credential
C19_Witness ==
    /\ last.op = "ensure_authenticated"
    /\ last.outcome = "ok"
    /\ last.ret = <<AuthTokens("device-token", "user-token")>>
    /\ config_file = FileOf(tokens)

\* C20: after every call in which a token exchange succeeded, a direct
\* refresh_user_token as well as ensure_authenticated and the calls that go
\* through it, the credential file holds the pair held in memory
C20_RefreshIsPersisted ==
    (/\ last.outcome = "ok"
     /\ \E i \in RequestsTo("user/new") : AnswerTo(i) = "ok")
        => config_file = [exists |-> TRUE, mode |-> 384,
                          devicetoken |-> tokens.device_token,
                          usertoken |-> tokens.user_token]

----------------------------------------------------------------------------
(* The whole client from construction on: the Session Manager and the Item *)
(* Repository over it, the host not yet resolved                            *)
(***************************************************************************)

SessionNext ==
    \/ \E mode \in Modes : RegisterDevice(mode, "code")
    \/ \E mode \in Modes : RefreshUserToken(mode)
    \/ \E mode \in Modes : EnsureAuthenticated(mode)
    \/ LoadTokens
    \/ GetHttpClient
    \/ \E mode \in Modes : DiscoverStorageHost(mode)
    \/ \E mode \in Modes : ListItems(mode)
    \/ \E id \in IdsInUse : GetItem(id)
    \/ \E mode \in Modes : CreateFolder(mode, <<"a">>, ROOT_FOLDER)
    \/ \E mode \in Modes, file \in Files :
          UploadDocument(mode, file, NoName, ROOT_FOLDER)
    \/ \E mode \in Modes, id \in IdsInUse : MoveItem(mode, id, ROOT_FOLDER, NoName)
    \/ \E mode \in Modes, id \in IdsInUse : RenameItem(mode, id, <<"A">>)
    \/ \E mode \in Modes, id \in IdsInUse : DeleteItemCall(mode, id)
    \/ TakeResult

SessionSpec == AuthInit /\ [][SessionNext]_vars

----------------------------------------------------------------------------
(* Properties of the client as a whole *)

\* the calls that go through the Session Manager without registering
RefreshingOps ==
    {"refresh_user_token", "ensure_authenticated", "get_item"}
        \cup MutatingOps \cup ListingOps

\* C21: a call of refresh_user_token, ensure_authenticated or the Item
\* Repository on a client that holds a pair, whether it succeeds or fails,
\* leaves the device credential held as it is, and leaves the credential file
\* as it is or writes the pair held after the call to it; and no call but
\* register_device brings a device credential into memory or into the file
\* that was neither held nor in the file before
C21_DeviceCredentialIsDurable ==
    [][ /\ (~tokens.is_none /\ last'.op \in RefreshingOps) =>
            /\ ~tokens'.is_none
            /\ tokens'.device_token = tokens.device_token
            /\ \/ config_file' = config_file
               \/ config_file' = [exists |-> TRUE, mode |-> 384,
                                  devicetoken |-> tokens.device_token,
                                  usertoken |-> tokens'.user_token]
        /\ last'.op # "register_device" =>
            LET known == (IF tokens.is_none THEN {} ELSE {tokens.device_token})
                           \cup (IF config_file.exists
                                 THEN {config_file.devicetoken} ELSE {})
            IN  /\ ~tokens'.is_none => tokens'.device_token \in known
                /\ config_file'.exists => config_file'.devicetoken \in known
      ]_vars

\* a registered client listed its items and got its second session
\* credential on the way: the device credential is the registered one, in
\* memory and in the file
C21_Witness ==
    /\ last.op = "list_items"
    /\ last.outcome = "ok"
    /\ tokens = AuthTokens("device-token", "user-token-2")
    /\ config_file = FileOf(tokens)

\* the requests of the last call that went to the storage host
StorageRequests ==
    {i \in 1..Len(last.reqs) :
        "host" \in DOMAIN last.reqs[i] /\ last.reqs[i].host # "blob-store"}

\* the last token exchange of the call before its request i, 0 without one
LastExchangeBefore(i) ==
    LET before == {j \in 1..(i - 1) : last.reqs[j].url = "user/new"}
    IN  IF before = {} THEN 0
        ELSE CHOOSE j \in before : \A k \in before : k <= j

\* C22: in blocking mode every request to the storage host carries as its
\* bearer token the session credential the latest token exchange before it
\* answered, which is not the device credential; and the client
\* get_http_client returns carries the session credential of the exchange
\* that call made, which is the one held afterwards
C22_BearerIsLatestSessionCredential ==
    last.mode = "sync" =>
        /\ \A i \in StorageRequests :
              LET j == LastExchangeBefore(i)
              IN  /\ j # 0
                  /\ last.reqs[i].bearer = TokenService(AnswerTo(j)).text
                  /\ last.reqs[i].bearer # ""
                  /\ last.reqs[i].bearer # last.reqs[j].bearer
        /\ (last.op = "get_http_client" /\ last.outcome = "ok") =>
              /\ Len(last.reqs) = 1
              /\ last.ret = <<TokenService(AnswerTo(1)).text>>
              /\ last.ret = <<tokens.user_token>>
              /\ last.ret # <<tokens.device_token>>

\* a registered client created a folder in blocking mode, and its two
\* storage requests went out under two different session credentials
C22_Witness ==
    /\ last.op = "create_folder"
    /\ last.mode = "sync"
    /\ last.outcome = "ok"
    /\ tokens.device_token = "device-token"
    /\ \E i \in RequestsTo("upload/request"), j \in RequestsTo("upload/update-status") :
          /\ last.reqs[i].bearer = "user-token"
          /\ last.reqs[j].bearer = "user-token-2"

\* the storage requests a successful call of each mutating operation sends
RequestsOf(op) ==
    CASE op = "rename_item" -> 3
      [] OTHER -> 2

\* C23: in both modes every request to the storage host has a session
\* refresh of its own before it, so that up to any storage request the call
\* has made at least as many token exchanges as storage requests; and a
\* successful create_folder, upload_document, move_item and delete_item has
\* made two storage requests and two exchanges, a rename_item three and three
C23_RefreshBeforeEveryRequest ==
    /\ \A i \in StorageRequests :
          Cardinality({j \in RequestsTo("user/new") : j < i})
              >= Cardinality({k \in StorageRequests : k <= i})
    /\ (last.op \in MutatingOps /\ last.outcome = "ok") =>
          /\ Cardinality(StorageRequests) = RequestsOf(last.op)
          /\ Cardinality(RequestsTo("user/new")) = RequestsOf(last.op)

FailureAnswers == {"http", "notfound", "empty", "refused", "raced", "net"}

\* the requests of the last call, the lookup of the host apart, that failed
FailedRequests ==
    {i \in 1..Len(last.reqs) :
        /\ last.reqs[i].url # "service-discovery"
        /\ AnswerTo(i) \in FailureAnswers}

\* C26: in every call of the Session Manager and of the Item Repository a
\* request that failed is the last request of the call, so that nothing is
\* sent again, no later step runs and nothing is sent to undo an earlier
\* step; and the call that had a failed request raises an error
C26_FailureEndsTheCall ==
    /\ \A i \in FailedRequests : i = Len(last.reqs)
    /\ FailedRequests # {} => last.outcome # "ok"

----------------------------------------------------------------------------
(* The two execution modes side by side *)

\* the operations that have a blocking and a non-blocking variant
ModalOps == MutatingOps \cup {"list_items"}

\* the variant of an operation for a mode, on the arguments of a call record
Variant(c, op, mode, args) ==
    CASE op = "create_folder" -> create_folder(c, mode, args.name, args.parent_id)
      [] op = "upload_document" ->
            upload_document(c, mode, [exists |-> args.path # <<>>, stem |-> args.path],
                            args.name, args.parent_id)
      [] op = "move_item" ->
            move_item(c, mode, args.item_id, args.parent_id, args.name)
      [] op = "rename_item" -> rename_item(c, mode, args.item_id, args.name[1])
      [] op = "delete_item" -> delete_item(c, mode, args.item_id)
      [] OTHER -> list_items(c)

\* the answers a run got from one endpoint, in the order it asked
AnswersFrom(reqs, script, url) ==
    LET asked == {i \in 1..Len(reqs) : reqs[i].url = url}
    IN  [k \in 1..Cardinality(asked) |->
            script[CHOOSE i \in asked : Cardinality({j \in asked : j <= i}) = k]]

Endpoints ==
    {"service-discovery", "user/new", "docs", "docs?doc", "upload/request",
     "blob-url", "upload/update-status", "delete"}

\* two runs met the same backend behaviour: every endpoint gave its n-th
\* request the same answer in both, as far as both asked
SameBehaviour(reqs1, script1, reqs2, script2) ==
    \A url \in Endpoints :
        LET a1 == AnswersFrom(reqs1, script1, url)
            a2 == AnswersFrom(reqs2, script2, url)
        IN  \A k \in 1..Len(a1) : k <= Len(a2) => a1[k] = a2[k]

\* C27: whenever the blocking variant of an operation has run, every run of
\* the non-blocking variant from the same state, on the same arguments and
\* under the same backend behaviour ends with the same result or the same
\* error and leaves the same cache, host and credential pair, in memory and
\* in the file
C27_ModesAgree ==
    [][ (last'.op \in ModalOps /\ last'.mode = "sync") =>
          \A c \in Outcomes(LAMBDA s : Variant(Begin(s), last'.op, "async", last'.args)) :
              SameBehaviour(last'.reqs, last'.script, c.reqs, c.script) =>
                  /\ last'.outcome = (IF c.err = "" THEN "ok" ELSE c.err)
                  /\ last'.outcome = "ok" => last'.ret = c.ret
                  /\ items_cache' = c.cache
                  /\ storage_host' = c.host
                  /\ tokens' = c.tokens
                  /\ config_file' = c.file
      ]_vars

----------------------------------------------------------------------------
(* Properties of the credential file *)

\* C28: save_tokens(t), or save_tokens() on a client that holds t, writes a
\* file restricted to the owner (0600) from which load_tokens, on the same
\* client or on a fresh one, takes a pair equal to t, and leaves t held in
\* memory; load_tokens takes the pair from the two fields of the file; and
\* save_tokens with no pair given and none held raises ConfigError and
\* leaves the file and the memory as they were
C28_TokensRoundTrip ==
    [][ /\ last'.op = "save_tokens" =>
            LET t == IF last'.args.tokens.is_none THEN tokens
                     ELSE last'.args.tokens
            IN  IF t.is_none
                THEN /\ last'.outcome = "ConfigError"
                     /\ config_file' = config_file
                     /\ tokens' = tokens
                ELSE /\ last'.outcome = "ok"
                     /\ tokens' = t
                     /\ config_file'.exists
                     /\ config_file'.mode = 384
                     /\ load_tokens(Begin(<<>>))'.tokens = t
                     /\ load_tokens([Begin(<<>>) EXCEPT !.tokens = NoTokens])'.tokens = t
        /\ (last'.op = "load_tokens" /\ config_file.exists) =>
            tokens' = [is_none |-> FALSE,
                       device_token |-> config_file.devicetoken,
                       user_token |-> config_file.usertoken]
      ]_vars

\* a pair was given to save_tokens: it is held, and the file holds it
\* under mode 0600
C28_Witness ==
    /\ last.op = "save_tokens"
    /\ last.outcome = "ok"
    /\ last.args.tokens = AuthTokens("saved-device-token", "saved-user-token")
    /\ tokens = last.args.tokens
    /\ config_file = FileOf(tokens)

----------------------------------------------------------------------------
(* Where the credential file is: AuthClient.__init__ and                   *)
(* _get_default_config_path.  A path is the sequence of its components.    *)
(***************************************************************************)

DEFAULT_CONFIG_NAME == <<".rmapi">>
XDG_CONFIG_NAME == <<"rmapi", "rmapi.conf">>
\* Path.home()
HOME == <<"~">>

\* an optional path or string: <<>> is None, <<p>> is p
NoPath == <<>>
\* the truth value Python gives it: None and the empty string are false
Truthy(value) == value # NoPath /\ value[1] # <<>>

\* a default path that looks into the configuration directory first
get_default_config_path_xdg_first(environ, files) ==
    LET env_config == environ.RMAPI_CONFIG
        home_config == HOME \o DEFAULT_CONFIG_NAME
        xdg_config_home == environ.XDG_CONFIG_HOME
        xdg_config ==
            IF Truthy(xdg_config_home) THEN xdg_config_home[1] \o XDG_CONFIG_NAME
            ELSE HOME \o <<".config">> \o XDG_CONFIG_NAME
    IN  IF Truthy(env_config) THEN env_config[1]
        ELSE IF xdg_config \in files THEN xdg_config
        ELSE home_config

\* _get_default_config_path: environ is os.environ, files are the paths
\* that exist
get_default_config_path(environ, files) ==
    LET env_config == environ.RMAPI_CONFIG
        home_config == HOME \o DEFAULT_CONFIG_NAME
        xdg_config_home == environ.XDG_CONFIG_HOME
        xdg_config ==
            IF Truthy(xdg_config_home) THEN xdg_config_home[1] \o XDG_CONFIG_NAME
            ELSE HOME \o <<".config">> \o XDG_CONFIG_NAME
    IN  IF Truthy(env_config) THEN env_config[1]
        ELSE IF home_config \in files THEN home_config
        ELSE IF xdg_config \in files THEN xdg_config
        ELSE home_config

\* AuthClient(config_path): the path of the client
auth_client_config_path(config_path, environ, files) ==
    IF config_path = NoPath THEN get_default_config_path(environ, files)
    ELSE config_path[1]

\* the paths the environment of a client can name, and the files there
OverridePaths == {NoPath, << <<"override">> >>}
EnvPaths == {NoPath, << <<>> >>, << <<"env">> >>}
XdgHomes == {NoPath, << <<>> >>, << <<"xdg">> >>}
Environs == [RMAPI_CONFIG : EnvPaths, XDG_CONFIG_HOME : XdgHomes]
KnownPaths ==
    {<<"override">>, <<"env">>, HOME \o DEFAULT_CONFIG_NAME,
     HOME \o <<".config">> \o XDG_CONFIG_NAME, <<"xdg">> \o XDG_CONFIG_NAME}

\* a client is constructed: nothing is held, and its credential file is the
\* file at the path chosen, if there is one
NewAuthClient(config_path, environ, files) ==
    /\ Idle
    /\ LET path == auth_client_config_path(config_path, environ, files)
       IN  /\ tokens' = NoTokens
           /\ config_file' =
                 IF path \in files
                 THEN FileOf(AuthTokens("old-device-token", "old-user-token"))
                 ELSE NoFile
           /\ last' = [NoCall EXCEPT !.op = "AuthClient", !.ret = <<path>>]
                          @@ [config_path |-> config_path, environ |-> environ,
                              files |-> files]
    /\ UNCHANGED <<docs, next_id, items_cache, storage_host>>

ConfigNext ==
    \/ \E config_path \in OverridePaths, environ \in Environs,
          files \in SUBSET KnownPaths : NewAuthClient(config_path, environ, files)
    \/ TakeResult

ConfigSpec == AuthInit /\ [][ConfigNext]_vars

\* the places the credential file is looked for, in their order: the
\* override, the path of the environment variable, the file in the home
\* directory, the file under the configuration directory; a place that is
\* not named is <<>>, a named one <<path>>
Places ==
    LET xdg_home == last.environ.XDG_CONFIG_HOME
        env == last.environ.RMAPI_CONFIG
    IN  << last.config_path,
           IF env = << <<>> >> THEN <<>> ELSE env,
           << <<"~", ".rmapi">> >>,
           IF xdg_home = <<>> \/ xdg_home = << <<>> >>
           THEN << <<"~", ".config", "rmapi", "rmapi.conf">> >>
           ELSE << xdg_home[1] \o <<"rmapi", "rmapi.conf">> >> >>

\* the places at which a file exists
PlacesWithFile(places) ==
    {k \in places : Places[k] # <<>> /\ Places[k][1] \in last.files}

\* C29, as stated: the path of a new client is the first of the four places
\* at which a file exists, and the file in the home directory if there is
\* a file at none of them
C29_FirstExistingWins ==
    last.op = "AuthClient" =>
        LET there == PlacesWithFile(1..4)
        IN  last.ret =
                IF there = {} THEN Places[3]
                ELSE Places[CHOOSE k \in there : \A j \in there : k <= j]

\* C29, amended: an override that is given is the path, whether or not a
\* file exists there; else the path of the environment variable, if it is
\* set and not empty, whether or not a file exists there; else the first of
\* the home-directory file and the configuration-directory file that
\* exists; and the home-directory file if neither exists
C29_GivenThenFirstExisting ==
    last.op = "AuthClient" =>
        LET there == PlacesWithFile(3..4)
        IN  last.ret =
                IF Places[1] # <<>> THEN Places[1]
                ELSE IF Places[2] # <<>> THEN Places[2]
                ELSE IF there = {} THEN Places[3]
                ELSE Places[CHOOSE k \in there : \A j \in there : k <= j]

\* no override and no environment variable, no file in the home directory,
\* one under the configuration directory XDG_CONFIG_HOME names: that one is
\* the path
C29_Witness ==
    /\ last.op = "AuthClient"
    /\ last.config_path = <<>>
    /\ last.environ = [RMAPI_CONFIG |-> <<>>, XDG_CONFIG_HOME |-> << <<"xdg">> >>]
    /\ <<"~", ".rmapi">> \notin last.files
    /\ last.ret = << <<"xdg", "rmapi", "rmapi.conf">> >>
    /\ config_file.exists

----------------------------------------------------------------------------
(* Properties of get_item *)

\* C30: get_item(id) leaves the item cache as it is and sends at most one
\* request for the item; answered with 404, or with 200 and no item, it
\* raises ItemNotFoundError; answered with another status or not at all it
\* raises ListItemsError; otherwise it returns the item the backend holds
\* under id, whatever the cache holds
C30_GetItemAsksTheBackend ==
    [][ last'.op = "get_item" =>
          LET asked == {i \in 1..Len(last'.reqs) : last'.reqs[i].url = "docs?doc"}
              held == {k \in 1..Len(docs) : docs[k].id = last'.args.item_id}
          IN  /\ items_cache' = items_cache
              /\ Cardinality(asked) <= 1
              /\ asked = {} => last'.outcome \notin {"ok", "ItemNotFoundError"}
              /\ \A i \in asked :
                    /\ last'.reqs[i].json = <<last'.args.item_id>>
                    /\ last'.script[i] = "notfound" =>
                          last'.outcome = "ItemNotFoundError"
                    /\ last'.script[i] \in {"http", "net"} =>
                          last'.outcome = "ListItemsError"
                    /\ (last'.script[i] = "ok" /\ held = {}) =>
                          last'.outcome = "ItemNotFoundError"
                    /\ (last'.script[i] = "ok" /\ held # {}) =>
                          /\ last'.outcome = "ok"
                          /\ \E k \in held : last'.ret = <<docs[k]>>
      ]_vars

\* get_item returned an item as the backend holds it while the item cache
\* holds an older copy of it
C30_Witness ==
    /\ last.op = "get_item"
    /\ last.outcome = "ok"
    /\ ~items_cache.is_none
    /\ last.args.item_id \in DOMAIN items_cache.dict
    /\ items_cache.dict[last.args.item_id] # last.ret[1]


----------------------------------------------------------------------------
(* Downloading the documents of an account *)

DownloadDocument(mode, item_id) ==
    /\ Idle
    /\ \E c \in Outcomes(LAMBDA s : download_document(Begin(s), mode, item_id)) :
        /\ docs' = c.docs
        /\ next_id' = c.next_id
        /\ items_cache' = c.cache
        /\ storage_host' = c.host
        /\ tokens' = c.tokens
        /\ config_file' = c.file
        /\ last' = [op |-> "download_document", mode |-> mode,
                    args |-> [NoArgs EXCEPT !.item_id = item_id],
                    outcome |-> IF c.err = "" THEN "ok" ELSE c.err,
                    ret |-> <<>>, path |-> <<>>,
                    reqs |-> c.reqs, script |-> c.script,
                    written |-> c.written]

DownloadNext ==
    \/ \E mode \in Modes, id \in IdsInUse \cup {Uuid(3)} :
          DownloadDocument(mode, id)
    \/ \E mode \in Modes : ListItems(mode)
    \/ TakeResult

DownloadSpec == EditInit /\ [][DownloadNext]_vars

\* the requests of the last call sent to the signed download URL
BlobGets == {i \in 1..Len(last.reqs) : last.reqs[i].url = "blob-get-url"}
\* the fetches of the last call that found the item
ItemFetches(answer) ==
    {i \in 1..Len(last.reqs) :
        /\ last.reqs[i].url = "docs?doc&withBlob"
        /\ last.script[i] = answer
        /\ \E k \in 1..Len(docs) : docs[k].id = last.args.item_id}
\* the entries of an archive whose name has the suffix
PdfEntries(content) ==
    {k \in 1..Len(content.entries) :
        EndsWith(content.entries[k].name, PDF_SUFFIX)}

\* C31: download_document fetches the item with its signed download URL;
\* when the item has none it raises DownloadError, requests no content and
\* writes nothing; when the content is an archive it writes the first entry
\* whose name ends with ".pdf", or the bytes retrieved, unmodified, when no
\* entry has such a name; when the content is not an archive it raises
\* DownloadError; and the item cache is what it was before the call
C31_Download ==
    [][ last'.op = "download_document" =>
          /\ items_cache' = items_cache
          /\ \A i \in 1..Len(last'.reqs) :
                last'.reqs[i].url \in {"docs?doc&withBlob", "blob-get-url",
                                      "user/new", "service-discovery"}
          /\ (\E i \in 1..Len(last'.reqs) :
                  /\ last'.reqs[i].url = "docs?doc&withBlob"
                  /\ last'.script[i] = "nourl"
                  /\ \E k \in 1..Len(docs) : docs[k].id = last'.args.item_id)
              => /\ last'.outcome = "DownloadError"
                 /\ \A i \in 1..Len(last'.reqs) : last'.reqs[i].url # "blob-get-url"
                 /\ last'.written = <<>>
          /\ \A i \in 1..Len(last'.reqs) :
                (last'.reqs[i].url = "blob-get-url"
                    /\ last'.script[i] \notin {"http", "net"})
                => LET content == BlobContent(last'.script[i])
                       first == CHOOSE k \in PdfEntries(content) :
                                    \A n \in PdfEntries(content) : k <= n
                   IN  IF ~content.is_zip
                       THEN last'.outcome = "DownloadError" /\ last'.written = <<>>
                       ELSE /\ last'.outcome = "ok"
                            /\ last'.written =
                                 IF PdfEntries(content) = {} THEN <<content>>
                                 ELSE <<content.entries[first].data>> ]_vars

\* a document was extracted from an archive that holds other entries before
\* it and a second document after it, by a client that holds a listing
C31_Witness ==
    /\ last.op = "download_document"
    /\ last.outcome = "ok"
    /\ ~items_cache.is_none
    /\ \E i \in BlobGets : last.script[i] = "mixed"
    /\ last.written = <<RawBytes("pdf-1")>>


----------------------------------------------------------------------------
(* Paths of items from a cache that has gone stale: other clients delete   *)
(* items, folders with their content still in them included                *)
(***************************************************************************)

WalkNext ==
    \/ \E mode \in Modes : ListItems(mode)
    \/ \E k \in 1..Len(docs) : GetItemPath(docs[k])
    \/ \E id \in DOMAIN items_cache.dict : GetItemPath(items_cache.dict[id])
    \/ \E k \in 1..Len(docs) : OtherClient(k, <<"a">>, ROOT_FOLDER, TRUE)
    \/ TakeResult

WalkSpec == PathInit /\ [][WalkNext]_vars

\* the chains of cached ancestors of an item, root-most first: each is the
\* parent of the next, the last is the parent of the item, and the first has
\* no parent or one the cache does not hold
AncestorChains(cache, parent_id) ==
    {anc \in SeqsUpTo(DOMAIN cache.dict, Cardinality(DOMAIN cache.dict)) :
        IF anc = <<>>
        THEN parent_id = ROOT_FOLDER \/ parent_id \notin DOMAIN cache.dict
        ELSE /\ anc[Len(anc)] = parent_id
             /\ \A i \in 2..Len(anc) : cache.dict[anc[i]].parent = anc[i - 1]
             /\ \/ cache.dict[anc[1]].parent = ROOT_FOLDER
                \/ cache.dict[anc[1]].parent \notin DOMAIN cache.dict}

\* the listings the last call asked for
Listings == {i \in 1..Len(last.reqs) : last.reqs[i].url = "docs"}

\* C32: get_item_path returns "/" followed by the names of the item's cached
\* ancestors, root-most first and "/"-separated, and the item's own name; it
\* asks for exactly one listing when the client holds no cache at the start
\* and for none otherwise; an ancestor the cache does not hold raises nothing
\* and the path starts at the child of that ancestor
C32_PathOfItem ==
    [][ last'.op = "get_item_path" =>
          /\ ~items_cache.is_none =>
                /\ last'.reqs = <<>>
                /\ items_cache' = items_cache
          /\ items_cache.is_none =>
                /\ Cardinality({i \in 1..Len(last'.reqs) :
                                    last'.reqs[i].url = "docs"}) <= 1
                /\ last'.outcome = "ok" =>
                      \E i \in 1..Len(last'.reqs) : last'.reqs[i].url = "docs"
          /\ (~items_cache.is_none
                \/ \E i \in 1..Len(last'.reqs) :
                      last'.reqs[i].url = "docs" /\ last'.script[i] = "ok")
             => \A anc \in AncestorChains(items_cache', last'.args.parent_id) :
                  /\ last'.outcome = "ok"
                  /\ last'.path =
                       <<SLASH>> \o
                       Join([i \in 1..Len(anc) |->
                                items_cache'.dict[anc[i]].visible_name]
                            \o <<last'.args.name>>) ]_vars

\* a path was returned that stops below an ancestor the cache does not hold
C32_Witness ==
    /\ last.op = "get_item_path"
    /\ last.outcome = "ok"
    /\ last.args.parent_id # ROOT_FOLDER
    /\ ~items_cache.is_none
    /\ \E anc \in AncestorChains(items_cache, last.args.parent_id) :
          /\ Len(anc) = 1
          /\ items_cache.dict[anc[1]].parent # ROOT_FOLDER
          /\ items_cache.dict[anc[1]].parent \notin DOMAIN items_cache.dict


\* C33: get_item_path terminates for every item and every cache the backend
\* can supply, caches in which an item is its own parent or parent links
\* form a cycle included
C33_PathWalkTerminates ==
    last.op = "get_item_path" => last.outcome # "diverges"


----------------------------------------------------------------------------
(* Two non-blocking calls of one client in flight at once: a listing and a *)
(* mutation.  A call runs until it awaits a response; the backend answers  *)
(* while it is suspended; it goes on when it is resumed.  The record of    *)
(* the pair is kept in last: where each call is, what it holds, and the    *)
(* order of the steps.                                                     *)
(***************************************************************************)

\* self._items_cache = {item.id: item for item in items}, on resumption
store_listing(cache, c) ==
    IF c.err = "" /\ c.ret # <<>> THEN c.cache ELSE cache

\* a mutating call that leaves the cache alone
invalidate_never(cache, c) == cache

\* self._items_cache = None at the end of a mutating call that succeeded
invalidate(cache, c) ==
    IF c.err = "" THEN NoCache ELSE cache

InGather == last.op = "gather"
BothDone == InGather /\ last.lister.pc = "done" /\ last.mutator.pc = "done"

\* what a suspended call holds that the rest of it depends on
Held(c) ==
    [err |-> c.err, headers |-> c.headers, ret |-> c.ret, cache |-> c.cache,
     docs |-> c.docs]

\* asyncio.gather(list_items_async(), <mutation>_async(...))
Gather(op, args) ==
    /\ Idle
    /\ op \in {"create_folder", "upload_document"} => next_id < MaxIds
    /\ op = "move_item" => Movable(args.item_id)
    /\ last' = [NoCall EXCEPT !.op = "gather", !.mode = "async", !.args = args]
               @@ [mutation |-> op, steps |-> <<>>, docs_before |-> docs,
                   lister |-> [pc |-> "start", c |-> Held(Begin(<<>>))],
                   mutator |-> [pc |-> "start", c |-> Held(Begin(<<>>))]]
    /\ UNCHANGED <<docs, next_id, items_cache, storage_host, tokens, config_file>>

\* list_items_async up to its await of client.get
ListerSend ==
    /\ InGather
    /\ last.lister.pc = "start"
    /\ \E c \in Outcomes(LAMBDA s :
                 get_auth_headers(storage_host_property(Begin(s)))) :
        /\ tokens' = c.tokens
        /\ config_file' = c.file
        /\ storage_host' = c.host
        /\ last' = [last EXCEPT
                      !.lister = [pc |-> IF c.err = "" THEN "sent" ELSE "done",
                                  c |-> Held(c)],
                      !.steps = Append(@, "list:send")]
    /\ UNCHANGED <<docs, next_id, items_cache>>

\* the backend answers the listing with the items it holds now
ListerAnswered ==
    /\ InGather
    /\ last.lister.pc = "sent"
    /\ \E a \in ListAnswers :
        last' = [last EXCEPT
                   !.lister = [pc |-> "answered",
                               c |-> Held(list_items_request(
                                        [Begin(<<a>>) EXCEPT
                                            !.headers = last.lister.c.headers]))],
                   !.steps = Append(@, "list:answer")]
    /\ UNCHANGED <<docs, next_id, items_cache, storage_host, tokens, config_file>>

\* list_items_async resumed with the response
ListerResume ==
    /\ InGather
    /\ last.lister.pc = "answered"
    /\ items_cache' = store_listing(items_cache, last.lister.c)
    /\ last' = [last EXCEPT !.lister.pc = "done",
                            !.steps = Append(@, "list:store")]
    /\ UNCHANGED <<docs, next_id, storage_host, tokens, config_file>>

\* the mutating call up to the await of its last request
MutatorSend ==
    /\ InGather
    /\ last.mutator.pc = "start"
    /\ \E c \in Outcomes(LAMBDA s :
                 Variant(Begin(s), last.mutation, "async", last.args)) :
        /\ \A k \in 1..Len(c.docs) : c.docs[k].version <= MaxVersion
        /\ tokens' = c.tokens
        /\ config_file' = c.file
        /\ storage_host' = c.host
        /\ next_id' = c.next_id
        /\ last' = [last EXCEPT !.mutator = [pc |-> "sent",
                                             c |-> Held([c EXCEPT !.headers = "", !.ret = <<>>,
                                                                 !.cache = NoCache])],
                                !.steps = Append(@, "mutate:send")]
    /\ UNCHANGED <<docs, items_cache>>

\* the backend applies the request and answers it
MutatorAnswered ==
    /\ InGather
    /\ last.mutator.pc = "sent"
    /\ docs' = last.mutator.c.docs
    /\ last' = [last EXCEPT !.mutator.pc = "answered",
                            !.steps = Append(@, "mutate:answer")]
    /\ UNCHANGED <<next_id, items_cache, storage_host, tokens, config_file>>

\* the mutating call resumed with the response
MutatorResume ==
    /\ InGather
    /\ last.mutator.pc = "answered"
    /\ items_cache' = invalidate(items_cache, last.mutator.c)
    /\ last' = [last EXCEPT !.mutator.pc = "done",
                            !.steps = Append(@, "mutate:clear")]
    /\ UNCHANGED <<docs, next_id, storage_host, tokens, config_file>>

RaceNext ==
    \/ \E name \in Names, parent_id \in {ROOT_FOLDER, Uuid(1)} :
          Gather("create_folder",
                 [NoArgs EXCEPT !.name = name, !.parent_id = parent_id])
    \/ Gather("upload_document", [NoArgs EXCEPT !.path = <<"A">>])
    \/ \E id \in IdsInUse :
          Gather("move_item", [NoArgs EXCEPT !.item_id = id, !.parent_id = Uuid(1)])
    \/ \E id \in IdsInUse :
          Gather("delete_item", [NoArgs EXCEPT !.item_id = id])
    \/ ListerSend
    \/ ListerAnswered
    \/ ListerResume
    \/ MutatorSend
    \/ MutatorAnswered
    \/ MutatorResume
    \/ (InGather => BothDone) /\ TakeResult

RaceSpec == EditInit /\ [][RaceNext]_vars

\* where a step stands in the order of the steps of the pair
StepAt(step) == CHOOSE i \in 1..Len(last.steps) : last.steps[i] = step

\* the mutating call of the pair succeeded and changed the backend
MutationTookEffect ==
    /\ BothDone
    /\ last.mutator.c.err = ""
    /\ last.mutator.c.docs # last.docs_before

\* C34 as stated: once a list_items_async call and a mutating non-blocking
\* call on the same client have both completed, the cache is empty or holds
\* a listing the backend produced after the mutation took effect
C34_NoListingFromBefore ==
    MutationTookEffect =>
        \/ items_cache.is_none
        \/ items_cache = CacheOf(DictOf(docs))

\* C34, amended: the cache is empty, or holds a listing produced after the
\* mutation took effect, or holds the listing from before the mutation, and
\* this only when list_items_async got its listing before the mutation
\* took effect and stored it after the mutating call cleared the cache
C34_StaleOnlyWhenStoredAfterClear ==
    MutationTookEffect =>
        \/ items_cache.is_none
        \/ items_cache = CacheOf(DictOf(docs))
        \/ /\ items_cache = CacheOf(DictOf(last.docs_before))
           /\ StepAt("list:answer") < StepAt("mutate:answer")
           /\ StepAt("mutate:clear") < StepAt("list:store")

\* both calls have completed, the mutation took effect, and the cache holds
\* the listing from before it
C34_Witness ==
    /\ MutationTookEffect
    /\ ~items_cache.is_none
    /\ items_cache = CacheOf(DictOf(last.docs_before))
    /\ items_cache # CacheOf(DictOf(docs))


----------------------------------------------------------------------------
(* rename_item on an account another client works on: the other client may *)
(* move the item between the two times rename_item fetches it              *)
(***************************************************************************)

\* an optional destination: <<>> when the other client does nothing
NotMoved == <<>>

\* the backend after another client moved the item: its parent is replaced
\* and its version goes up by one
other_client_moves(items, item_id, moved_to) ==
    IF moved_to = NotMoved THEN items
    ELSE [k \in 1..Len(items) |->
            IF items[k].id = item_id
            THEN [items[k] EXCEPT !.version = @ + 1, !.parent = moved_to[1]]
            ELSE items[k]]

\* rename_item and rename_item_async: get_item for the parent, then
\* move_item, which fetches the item again for its version
rename_item_shared(c, mode, item_id, new_name, moved_to) ==
    LET c1 == get_item(c, item_id)
        c2 == [c1 EXCEPT !.docs = other_client_moves(c1.docs, item_id, moved_to)]
    IN  IF Blocked(c1) THEN c1
        ELSE move_item(c2, mode, item_id, c1.ret[1].parent, <<new_name>>)

RenameItemShared(mode, item_id, new_name, moved_to) ==
    /\ Idle
    /\ Movable(item_id)
    /\ \A k \in 1..Len(docs) :
          docs[k].id = item_id /\ moved_to # NotMoved
          => moved_to[1] \notin {docs[k].parent, item_id}
    /\ \E c \in Outcomes(LAMBDA s :
                 rename_item_shared(Begin(s), mode, item_id, new_name, moved_to)) :
        /\ docs' = c.docs
        /\ next_id' = c.next_id
        /\ items_cache' = c.cache
        /\ storage_host' = c.host
        /\ tokens' = c.tokens
        /\ config_file' = c.file
        /\ last' = [op |-> "rename_item", mode |-> mode,
                    args |-> [NoArgs EXCEPT !.item_id = item_id,
                                            !.name = <<new_name>>],
                    outcome |-> IF c.err = "" THEN "ok" ELSE c.err,
                    ret |-> IF c.err = "" THEN c.ret ELSE <<>>,
                    path |-> <<>>, reqs |-> c.reqs, script |-> c.script,
                    moved_to |-> moved_to]

RenameSharedNext ==
    \/ \E mode \in Modes, id \in IdsInUse, name \in Names,
          moved_to \in {NotMoved, <<ROOT_FOLDER>>, <<Uuid(1)>>} :
          RenameItemShared(mode, id, name, moved_to)
    \/ TakeResult

RenameSharedSpec == EditInit /\ [][RenameSharedNext]_vars

\* the items with the identifier in a listing
ItemsOf(items, item_id) ==
    {items[k] : k \in {j \in 1..Len(items) : items[j].id = item_id}}

\* C35: the parent and the version rename_item sends in its update come from
\* one observation of the item, so a rename that succeeds never puts the
\* item back under a parent another client moved it away from
C35_RenameFromOneObservation ==
    [][ (last'.op = "rename_item" /\ last'.outcome = "ok") =>
          /\ \A i \in 1..Len(last'.reqs) :
                last'.reqs[i].url = "upload/update-status" =>
                    \E seen \in ItemsOf(docs, last'.args.item_id) \cup
                                ItemsOf(other_client_moves(docs, last'.args.item_id,
                                                           last'.moved_to),
                                        last'.args.item_id) :
                        /\ last'.reqs[i].json[1].Parent = seen.parent
                        /\ last'.reqs[i].json[1].Version = seen.version + 1
          /\ last'.moved_to # NotMoved =>
                \A it \in ItemsOf(docs', last'.args.item_id) :
                    it.parent = last'.moved_to[1] ]_vars


----------------------------------------------------------------------------
(* The credential of the non-blocking requests *)

\* C36: in non-blocking mode every request to the storage host carries the
\* session credential the client holds when the request is sent, which is
\* the one the latest token exchange of the call answered; the update and
\* delete requests of move_item_async, delete_item_async and
\* rename_item_async are not sent under a credential a later refresh of the
\* same call replaced
C36_AsyncBearerIsCredentialHeld ==
    last.mode = "async" =>
        \A i \in StorageRequests :
            LET j == LastExchangeBefore(i)
            IN  /\ j # 0
                /\ last.reqs[i].bearer = TokenService(AnswerTo(j)).text


----------------------------------------------------------------------------
(* A session refresh that fails *)

\* C37: when the token exchange answers with a status other than success or
\* with an empty body, or the network fails, refresh_user_token and
\* ensure_authenticated raise, leave a credential pair the client holds as
\* it is, and leave the credential file exactly as it was before the call
C37_FailedRefreshChangesNothing ==
    [][ (/\ last'.op \in {"refresh_user_token", "ensure_authenticated"}
         /\ \E i \in 1..Len(last'.reqs) :
               /\ last'.reqs[i].url = "user/new"
               /\ last'.script[i] \in {"http", "empty", "net"})
        => /\ last'.outcome = "TokenRefreshError"
           /\ last'.ret = <<>>
           /\ ~tokens.is_none => tokens' = tokens
           /\ config_file' = config_file ]_vars

\* ensure_authenticated failed at the exchange on a client that holds a
\* session credential the credential file does not
C37_Witness ==
    /\ last.op = "ensure_authenticated"
    /\ last.outcome = "TokenRefreshError"
    /\ \E i \in 1..Len(last.reqs) : last.script[i] = "empty"
    /\ ~tokens.is_none
    /\ tokens.user_token # ""
    /\ config_file.exists
    /\ config_file.usertoken # tokens.user_token


----------------------------------------------------------------------------
(* Rejections by the backend *)

\* C38: create_folder and upload_document return an item only when the
\* backend reported success for the metadata update: a metadata-update
\* response with an explicit failure flag makes them raise
\* CreateFolderError and UploadError, as it makes move_item raise MoveError
C38_NoRejectionSwallowed ==
    (last.op \in {"create_folder", "upload_document", "move_item"}
        /\ last.outcome = "ok")
    => /\ last.ret # <<>>
       /\ last.ret[1].success
       /\ \A i \in 1..Len(last.reqs) :
             last.reqs[i].url = "upload/update-status" => AnswerTo(i) # "refused"


\* C39: in upload_document the content PUT to the signed URL fails with
\* UploadError exactly when the response status is not 2xx: after every 2xx
\* status the call goes on to the metadata step, after every other status
\* it raises UploadError and sends nothing more
C39_ContentPutAcceptsEvery2xx ==
    last.op = "upload_document" =>
        \A i \in 1..Len(last.reqs) :
            last.reqs[i].url = "blob-url" =>
                LET response == BlobStore(AnswerTo(i))
                IN  IF ~response.net_error /\ response.status_code \in 200..299
                    THEN i < Len(last.reqs)
                    ELSE i = Len(last.reqs) /\ last.outcome = "UploadError"


----------------------------------------------------------------------------
(* The legacy client: pyrmapi/rmapi.py, which runs the rmapi executable.   *)
(* A remote path is the sequence of its names, the root the empty one; a   *)
(* name is a sequence of characters.  The account is the sequence of its   *)
(* entries in the order rmapi lists them, kept in docs; the commands a     *)
(* call ran are kept in the reqs of its record.                            *)
(***************************************************************************)

RemoteEntry(parent, name, kind) == [parent |-> parent, name |-> name, kind |-> kind]
RemoteRoot == <<>>

\* Path.parent and Path.name of a path below the root
ParentOf(path) == SubSeq(path, 1, Len(path) - 1)
NameOf(path) == path[Len(path)]

IsDirectory(tree, path) ==
    \/ path = RemoteRoot
    \/ \E k \in 1..Len(tree) :
          /\ tree[k].kind = "d"
          /\ tree[k].parent = ParentOf(path)
          /\ tree[k].name = NameOf(path)

HasEntry(tree, path) ==
    \E k \in 1..Len(tree) :
        tree[k].parent = ParentOf(path) /\ tree[k].name = NameOf(path)

\* one line of the listing rmapi prints: "[d] name" or "[f] name"
ListingLine(entry) == <<"[", entry.kind, "]", " ">> \o entry.name

RECURSIVE JoinLines(_)
JoinLines(lines) ==
    IF lines = <<>> THEN <<>>
    ELSE IF Len(lines) = 1 THEN lines[1]
    ELSE lines[1] \o <<"\n">> \o JoinLines(Tail(lines))

\* stdout of "rmapi ls path": the entries of the directory, nothing when
\* the path is no directory
RmapiLs(tree, path) ==
    IF ~IsDirectory(tree, path) THEN <<>>
    ELSE LET children == SelectSeq(tree, LAMBDA e : e.parent = path)
         IN  JoinLines([i \in 1..Len(children) |-> ListingLine(children[i])])

\* the account after "rmapi mkdir path"
RmapiMkdir(tree, path) ==
    IF IsDirectory(tree, ParentOf(path)) /\ ~HasEntry(tree, path)
    THEN Append(tree, RemoteEntry(ParentOf(path), NameOf(path), "d"))
    ELSE tree

\* str.replace(old, ""): every occurrence of old is taken out, left to right
RECURSIVE RemoveAll(_, _)
RemoveAll(s, old) ==
    IF Len(s) < Len(old) THEN s
    ELSE IF SubSeq(s, 1, Len(old)) = old
         THEN RemoveAll(SubSeq(s, Len(old) + 1, Len(s)), old)
    ELSE <<Head(s)>> \o RemoveAll(Tail(s), old)

\* the account after "rmapi put local remote_directory": the document takes
\* the name of the file without its extension
RmapiPut(tree, file_name, remote_directory) ==
    LET path == Append(remote_directory, RemoveAll(file_name, PDF_SUFFIX))
    IN  IF IsDirectory(tree, remote_directory) /\ ~HasEntry(tree, path)
        THEN Append(tree, RemoteEntry(remote_directory, NameOf(path), "f"))
        ELSE tree

\* the account after "rmapi mv original new"
RmapiMv(tree, original_path, new_path) ==
    IF HasEntry(tree, original_path) /\ ~HasEntry(tree, new_path)
       /\ IsDirectory(tree, ParentOf(new_path))
    THEN [k \in 1..Len(tree) |->
            IF tree[k].parent = ParentOf(original_path)
               /\ tree[k].name = NameOf(original_path)
            THEN [tree[k] EXCEPT !.parent = ParentOf(new_path),
                                 !.name = NameOf(new_path)]
            ELSE tree[k]]
    ELSE tree

\* Python's "needle in text" on strings
Contains(text, needle) ==
    \E i \in 0..(Len(text) - Len(needle)) :
        SubSeq(text, i + 1, i + Len(needle)) = needle

Command(name, args) == [cmd |-> name, args |-> args]

\* a call of the legacy client in progress: the account, the commands run
LegacyBegin(tree) == [tree |-> tree, commands |-> <<>>, ret |-> <<>>]

\* RMAPI.ensure_directory
ensure_directory(c, path) ==
    LET result == RmapiLs(c.tree, ParentOf(path))
        c1 == [c EXCEPT !.commands = Append(@, Command("ls", <<ParentOf(path)>>))]
    IN  IF ~Contains(result, NameOf(path))
        THEN [c1 EXCEPT !.tree = RmapiMkdir(c.tree, path),
                        !.commands = Append(@, Command("mkdir", <<path>>)),
                        !.ret = <<TRUE>>]
        ELSE [c1 EXCEPT !.ret = <<TRUE>>]

\* the loop of RMAPI.upload over the parts of remote_directory
RECURSIVE EnsureDirectories(_, _, _)
EnsureDirectories(c, remote_directory, i) ==
    IF i > Len(remote_directory) THEN c
    ELSE EnsureDirectories(ensure_directory(c, SubSeq(remote_directory, 1, i)),
                           remote_directory, i + 1)

\* RMAPI.upload; remote_file_name is <<>> for None
legacy_upload(c, file, remote_directory, remote_file_name) ==
    IF ~file.exists THEN [c EXCEPT !.ret = <<FALSE>>]
    ELSE LET c1 == EnsureDirectories(c, remote_directory, 1)
             c2 == [c1 EXCEPT
                      !.tree = RmapiPut(c1.tree, file.name, remote_directory),
                      !.commands = Append(@, Command("put",
                                                     <<file.name, remote_directory>>))]
             original == Append(remote_directory, RemoveAll(file.name, PDF_SUFFIX))
             new == IF remote_file_name = <<>> THEN original
                    ELSE Append(remote_directory,
                                RemoveAll(remote_file_name[1], PDF_SUFFIX))
         IN  IF remote_file_name = <<>> THEN [c2 EXCEPT !.ret = <<TRUE>>]
             ELSE [c2 EXCEPT !.tree = RmapiMv(c2.tree, original, new),
                             !.commands = Append(@, Command("mv", <<original, new>>)),
                             !.ret = <<TRUE>>]

\* the most entries an account holds
MaxEntries == 3

\* the call ends: the account it leaves, and its record
LegacyReturn(op, args, c) ==
    /\ Len(c.tree) <= MaxEntries
    /\ docs' = c.tree
    /\ last' = [NoCall EXCEPT !.op = op, !.args = args, !.ret = c.ret,
                              !.reqs = c.commands]
    /\ UNCHANGED <<next_id, items_cache, storage_host, tokens, config_file>>

EnsureDirectory(path) ==
    /\ Idle
    /\ LegacyReturn("ensure_directory", [NoArgs EXCEPT !.path = path],
                    ensure_directory(LegacyBegin(docs), path))

LegacyUpload(file, remote_directory, remote_file_name) ==
    /\ Idle
    /\ LegacyReturn("upload",
                    [NoArgs EXCEPT !.path = remote_directory,
                                   !.name = <<file, remote_file_name>>],
                    legacy_upload(LegacyBegin(docs), file, remote_directory,
                                  remote_file_name))

\* names of remote entries: "a" is part of "ba", and "d" is the letter rmapi
\* prints in front of every directory
RemoteNames == {<<"a">>, <<"b", "a">>, <<"d">>}
RemotePaths ==
    {<<n>> : n \in RemoteNames} \cup {<<n, m>> : n \in RemoteNames, m \in {<<"a">>}}
LocalFiles ==
    {[exists |-> e, name |-> <<"a", ".", "p", "d", "f">>] : e \in BOOLEAN}
RemoteFileNames == {<<>>, <<<<"b", "a", ".", "p", "d", "f">>>>}

\* accounts of at most two entries at the root
LegacyTrees ==
    {<<>>}
    \cup {<<RemoteEntry(RemoteRoot, n, k)>> : n \in RemoteNames, k \in {"d", "f"}}
    \cup {<<RemoteEntry(RemoteRoot, pair[1], "d"),
             RemoteEntry(RemoteRoot, pair[2], "d")>> :
            pair \in {p \in RemoteNames \X RemoteNames : p[1] # p[2]}}

LegacyInit ==
    /\ docs \in LegacyTrees
    /\ next_id = 0
    /\ items_cache = NoCache
    /\ storage_host = None
    /\ tokens = NoTokens
    /\ config_file = NoFile
    /\ last = NoCall

LegacyNext ==
    \/ \E path \in RemotePaths : EnsureDirectory(path)
    \/ \E file \in LocalFiles, remote_directory \in RemotePaths,
          remote_file_name \in RemoteFileNames :
          LegacyUpload(file, remote_directory, remote_file_name)
    \/ TakeResult

LegacySpec == LegacyInit /\ [][LegacyNext]_vars

\* C40: ensure_directory(path) lists the parent directory and issues mkdir
\* for path exactly when the parent has no entry named path.name, also when
\* the name of another entry contains path.name; upload returns False and
\* runs no command when the local file does not exist
C40_MkdirExactlyWhenMissing ==
    [][ /\ last'.op = "ensure_directory" =>
              LET path == last'.args.path
              IN  /\ last'.reqs[1] = Command("ls", <<ParentOf(path)>>)
                  /\ IF HasEntry(docs, path)
                     THEN last'.reqs = <<Command("ls", <<ParentOf(path)>>)>>
                     ELSE last'.reqs = <<Command("ls", <<ParentOf(path)>>),
                                         Command("mkdir", <<path>>)>>
        /\ (last'.op = "upload" /\ ~last'.args.name[1].exists) =>
              /\ last'.ret = <<FALSE>>
              /\ last'.reqs = <<>>
              /\ docs' = docs ]_vars

====
